---- MODULE Spec2Model ----
(***************************************************************************)
(* A model of stepreduce: reduce() reads a STEP file, splits it into       *)
(* header / data / footer, deduplicates the data entities, removes the     *)
(* entities unreachable from the GC roots and writes the result.           *)
(*                                                                         *)
(* Text is carried as TLA+ strings.  Offsets are the 0-based byte offsets  *)
(* of the Rust source: Slice(s, a, b) is s[a..b] and At(s, p) is the byte  *)
(* at offset p.  An Option is a set with at most one element.              *)
(***************************************************************************)
EXTENDS Integers, Sequences, FiniteSets, TLC

VARIABLES
    pc,            \* the position of reduce()
    input,         \* the lines the reader has yielded so far
    read_failed,   \* the reader yielded an Err (parse_data_section left its loop)
    parse,         \* parse_data_section's result and flags
    options,       \* ReduceOptions: max_decimals, use_step_precision
    max_decimals,  \* reduce's local: the bound handed to deduplicate
    in_lines,      \* deduplicate: the list the last pass read
    out_lines,     \* deduplicate: the list the last pass produced
    lookup,        \* deduplicate: the last pass's old id -> new id table
    passes,        \* the number of passes run
    maps,          \* remove_orphans: id_to_rhs and id_to_refs
    reachable,     \* remove_orphans: the reachable set
    stack,         \* remove_orphans: the work-list
    data_lines,    \* the data lines reduce writes
    output,        \* the output file: None until it is created
    result,        \* what reduce returned: "none", "Ok", "Err", or "Panic"
    origin,        \* for each parsed data line, its place in the current list (0: gone)
    assigned,      \* for each line of in_lines, the id the last pass gave it (0: skipped)
    kept           \* for each line of out_lines, the id remove_orphans gave it (0: dropped)

\* ------------------------------------------------------------- text layer

None == {}
Some(x) == {x}
Unwrap(o) == CHOOSE x \in o : TRUE

Slice(s, a, b) == SubSeq(s, a + 1, b)
At(s, p) == SubSeq(s, p + 1, p + 1)
From(s, a) == SubSeq(s, a + 1, Len(s))

Digits == {"0", "1", "2", "3", "4", "5", "6", "7", "8", "9"}
UpperLetters == {"A", "B", "C", "D", "E", "F", "G", "H", "I", "J", "K", "L", "M",
                 "N", "O", "P", "Q", "R", "S", "T", "U", "V", "W", "X", "Y", "Z"}
LowerLetters == {"a", "b", "c", "d", "e", "f", "g", "h", "i", "j", "k", "l", "m",
                 "n", "o", "p", "q", "r", "s", "t", "u", "v", "w", "x", "y", "z"}

is_ascii_digit(c) == c \in Digits
is_ascii_uppercase(c) == c \in UpperLetters
is_ascii_alphabetic(c) == c \in UpperLetters \cup LowerLetters
is_ascii_whitespace(c) == c \in {" ", "\t", "\n", "\r"}

\* str::find(char): the offset of the first occurrence, searching from p.
RECURSIVE FindFrom(_, _, _)
FindFrom(s, c, p) ==
    IF p >= Len(s) THEN None
    ELSE IF At(s, p) = c THEN Some(p)
    ELSE FindFrom(s, c, p + 1)

Find(s, c) == FindFrom(s, c, 0)

\* str::contains(&str)
Contains(s, needle) ==
    \E p \in 0..(Len(s) - Len(needle)) : Slice(s, p, p + Len(needle)) = needle

RECURSIVE TrimStart(_)
TrimStart(s) ==
    IF Len(s) > 0 /\ is_ascii_whitespace(At(s, 0)) THEN TrimStart(From(s, 1)) ELSE s

RECURSIVE TrimEnd(_)
TrimEnd(s) ==
    IF Len(s) > 0 /\ is_ascii_whitespace(At(s, Len(s) - 1))
    THEN TrimEnd(Slice(s, 0, Len(s) - 1))
    ELSE s

Trim(s) == TrimEnd(TrimStart(s))

DigitVal(c) ==
    CASE c = "0" -> 0 [] c = "1" -> 1 [] c = "2" -> 2 [] c = "3" -> 3 [] c = "4" -> 4
      [] c = "5" -> 5 [] c = "6" -> 6 [] c = "7" -> 7 [] c = "8" -> 8 [] c = "9" -> 9

DigitChar(d) ==
    CASE d = 0 -> "0" [] d = 1 -> "1" [] d = 2 -> "2" [] d = 3 -> "3" [] d = 4 -> "4"
      [] d = 5 -> "5" [] d = 6 -> "6" [] d = 7 -> "7" [] d = 8 -> "8" [] d = 9 -> "9"

AllDigits(s) == \A p \in 0..(Len(s) - 1) : is_ascii_digit(At(s, p))

RECURSIVE DigitsValue(_, _)
DigitsValue(s, acc) ==
    IF Len(s) = 0 THEN acc ELSE DigitsValue(From(s, 1), 10 * acc + DigitVal(At(s, 0)))

\* str::parse::<u32>(): an optional '+', then one or more digits, below 2^32.
\* TLC's integers end at 2^31 - 1: a text of up to nine digits is parsed exactly
\* and a longer one is taken to overflow (no text of the model is that long).
ParseU32(s) ==
    LET body == IF Len(s) > 0 /\ At(s, 0) = "+" THEN From(s, 1) ELSE s
    IN  IF Len(body) = 0 \/ ~AllDigits(body) \/ Len(body) > 9 THEN None
        ELSE Some(DigitsValue(body, 0))

\* u32::to_string()
RECURSIVE to_string(_)
to_string(n) ==
    IF n < 10 THEN DigitChar(n) ELSE to_string(n \div 10) \o DigitChar(n % 10)

\* ------------------------------------------------------------- references

\* The offset one past the digits that start at p.
RECURSIVE EatDigits(_, _)
EatDigits(s, p) ==
    IF p < Len(s) /\ is_ascii_digit(At(s, p)) THEN EatDigits(s, p + 1) ELSE p

\* ref_matches: the matches (start, end, value) of s from offset pos on, in order.
RECURSIVE ref_matches_from(_, _)
\* Lines 25-43: a '#' at pos, the digits after it ending at num_end.
RefAt(s, pos, num_end, value) ==
    IF value # None
    THEN <<[start |-> pos, end |-> num_end, value |-> Unwrap(value)]>>
         \o ref_matches_from(s, num_end)
    ELSE ref_matches_from(s, IF num_end > pos + 1 THEN num_end ELSE pos + 1)

RefDigits(s, pos, num_end) ==
    RefAt(s, pos, num_end,
          IF num_end > pos + 1 THEN ParseU32(Slice(s, pos + 1, num_end)) ELSE None)

ref_matches_from(s, pos) ==
    IF pos >= Len(s) THEN <<>>
    ELSE IF At(s, pos) = "#" THEN RefDigits(s, pos, EatDigits(s, pos + 1))
    ELSE ref_matches_from(s, pos + 1)

ref_matches(s) == ref_matches_from(s, 0)

Values(ms) == {ms[i].value : i \in DOMAIN ms}

collect_references(rhs) == Values(ref_matches(rhs))

\* remap_references: table is a function from old ids to new ids.
RECURSIVE remap_loop(_, _, _, _, _)
remap_loop(rhs, table, ms, i, last_pos) ==
    IF i > Len(ms) THEN From(rhs, last_pos)
    ELSE LET m == ms[i]
             piece == IF m.value \in DOMAIN table
                      THEN "#" \o to_string(table[m.value])
                      ELSE Slice(rhs, m.start, m.end)
         IN  Slice(rhs, last_pos, m.start) \o piece
             \o remap_loop(rhs, table, ms, i + 1, m.end)

\* remap_references applied again to what it returned.
RemapTwice(rhs, table) ==
    remap_loop(remap_loop(rhs, table, ref_matches(rhs), 1, 0), table,
               ref_matches(remap_loop(rhs, table, ref_matches(rhs), 1, 0)), 1, 0)

remap_references(rhs, table) == remap_loop(rhs, table, ref_matches(rhs), 1, 0)

\* ------------------------------------------------------------- numbers

UnwrapOr(o, d) == IF o = None THEN d ELSE Unwrap(o)

StartsWith(s, c) == Len(s) > 0 /\ At(s, 0) = c

ParseSigned(negative, body) ==
    IF Len(body) = 0 \/ ~AllDigits(body) \/ Len(body) > 9 THEN None
    ELSE IF negative THEN Some(0 - DigitsValue(body, 0))
    ELSE Some(DigitsValue(body, 0))

\* str::parse::<i32>(): an optional sign, then one or more digits (see ParseU32
\* for the width).
ParseI32(s) ==
    IF StartsWith(s, "-") THEN ParseSigned(TRUE, From(s, 1))
    ELSE ParseSigned(FALSE, IF StartsWith(s, "+") THEN From(s, 1) ELSE s)

\* The end of the exponent at pos: digit_start is past `E` and its sign, p past the
\* digits.
ExponentEnd(pos, digit_start, p) == IF p > digit_start THEN p ELSE pos

ExponentFrom(s, pos, digit_start) == ExponentEnd(pos, digit_start, EatDigits(s, digit_start))

try_consume_exponent(s, pos) ==
    IF pos >= Len(s) THEN pos
    ELSE IF At(s, pos) # "e" /\ At(s, pos) # "E" THEN pos
    ELSE ExponentFrom(s, pos,
                      IF pos + 1 < Len(s) /\ At(s, pos + 1) \in {"+", "-"}
                      THEN pos + 2 ELSE pos + 1)

\* find_numbers' attempt at one offset: p is past the leading digits that start
\* at digits_start.  The end of the literal, or None.
NumberEnd(s, digits_start, p) ==
    IF p > digits_start
    THEN IF p < Len(s) /\ At(s, p) = "."
         THEN Some(try_consume_exponent(s, EatDigits(s, p + 1)))
         ELSE IF p < Len(s) /\ At(s, p) \in {"e", "E"} /\ try_consume_exponent(s, p) > p
         THEN Some(try_consume_exponent(s, p))
         ELSE None
    ELSE IF p < Len(s) /\ At(s, p) = "." /\ EatDigits(s, p + 1) > p + 1
    THEN Some(try_consume_exponent(s, EatDigits(s, p + 1)))
    ELSE None

\* Where the scan goes on when no literal starts at `start`.
AfterNoMatch(start, digits_start, p) == IF p > digits_start THEN p ELSE start + 1

GuardOk(s, pos) ==
    pos = 0 \/ (~is_ascii_alphabetic(At(s, pos - 1)) /\ At(s, pos - 1) # "_"
                /\ At(s, pos - 1) # "#")

\* find_numbers: the matches (start, end) of s from offset pos on, in order.
RECURSIVE find_numbers_from(_, _)
NumbersAfter(s, start, end, resume) ==
    IF end # None
    THEN <<[start |-> start, end |-> Unwrap(end)]>> \o find_numbers_from(s, Unwrap(end))
    ELSE find_numbers_from(s, resume)

NumbersAt(s, start, digits_start, p) ==
    NumbersAfter(s, start, NumberEnd(s, digits_start, p), AfterNoMatch(start, digits_start, p))

NumbersFrom(s, start, digits_start) == NumbersAt(s, start, digits_start, EatDigits(s, digits_start))

find_numbers_from(s, pos) ==
    IF pos >= Len(s) THEN <<>>
    ELSE IF ~GuardOk(s, pos) THEN find_numbers_from(s, pos + 1)
    ELSE NumbersFrom(s, pos, IF At(s, pos) = "-" THEN pos + 1 ELSE pos)

find_numbers(s) == find_numbers_from(s, 0)

UpperAlphabet == "ABCDEFGHIJKLMNOPQRSTUVWXYZ"
LowerAlphabet == "abcdefghijklmnopqrstuvwxyz"

\* u8::to_ascii_uppercase
to_ascii_uppercase_char(c) ==
    IF c \in LowerLetters THEN At(UpperAlphabet, Unwrap(Find(LowerAlphabet, c))) ELSE c

\* The offset of the first 'E' of s.to_ascii_uppercase().
RECURSIVE FindE(_, _)
FindE(s, p) ==
    IF p >= Len(s) THEN None
    ELSE IF At(s, p) \in {"e", "E"} THEN Some(p)
    ELSE FindE(s, p + 1)

\* "0".repeat(n)
RECURSIVE Zeros(_)
Zeros(n) == IF n <= 0 THEN "" ELSE "0" \o Zeros(n - 1)

\* str::find(|c| c != '0')
RECURSIVE FirstNonZero(_, _)
FirstNonZero(s, p) ==
    IF p >= Len(s) THEN None
    ELSE IF At(s, p) # "0" THEN Some(p)
    ELSE FirstNonZero(s, p + 1)

\* str::rfind(|c| c != '0')
RECURSIVE LastNonZero(_, _)
LastNonZero(s, p) ==
    IF p < 0 THEN None
    ELSE IF At(s, p) # "0" THEN Some(p)
    ELSE LastNonZero(s, p - 1)

\* StripLeadingZeros with the zeros left in place.
KeepLeadingZeros(int_part) == IF int_part = "" THEN "0" ELSE int_part

KeepFrom(int_part, first_nonzero) ==
    IF first_nonzero = None THEN "0" ELSE From(int_part, Unwrap(first_nonzero))

StripLeadingZeros(int_part) == KeepFrom(int_part, FirstNonZero(int_part, 0))

KeepUpTo(frac_part, last_nonzero) ==
    IF last_nonzero = None THEN "" ELSE Slice(frac_part, 0, Unwrap(last_nonzero) + 1)

StripTrailingZeros(frac_part) == KeepUpTo(frac_part, LastNonZero(frac_part, Len(frac_part) - 1))

\* The (int_part, frac_part) of normalize_number after the exponent is applied.
ShiftPoint(int_part, frac_part, exp_val) ==
    IF exp_val > 0
    THEN IF exp_val < Len(frac_part)
         THEN <<int_part \o Slice(frac_part, 0, exp_val), From(frac_part, exp_val)>>
         ELSE <<int_part \o frac_part \o Zeros(exp_val - Len(frac_part)), "">>
    ELSE IF exp_val < 0
    THEN IF (0 - exp_val) < Len(int_part)
         THEN <<Slice(int_part, 0, Len(int_part) + exp_val),
                From(int_part, Len(int_part) + exp_val) \o frac_part>>
         ELSE <<"0", Zeros((0 - exp_val) - Len(int_part)) \o int_part \o frac_part>>
    ELSE <<int_part, frac_part>>

\* normalize_number, lines 223-233.
NormalizeParts(negative, int_part, frac_part) ==
    IF int_part = "0" /\ frac_part = "" THEN "0."
    ELSE IF negative THEN "-" \o int_part \o "." \o frac_part
    ELSE int_part \o "." \o frac_part

\* normalize_number, lines 209-221.
NormalizeShifted(negative, shifted) ==
    NormalizeParts(negative, StripLeadingZeros(shifted[1]), StripTrailingZeros(shifted[2]))

\* normalize_number, lines 168-207.
NormalizeSplit(negative, mantissa_str, dot, exp_val) ==
    NormalizeShifted(negative,
        ShiftPoint(IF dot = None THEN (IF mantissa_str = "" THEN "0" ELSE mantissa_str)
                   ELSE IF Unwrap(dot) = 0 THEN "0"
                   ELSE Slice(mantissa_str, 0, Unwrap(dot)),
                   IF dot = None THEN "" ELSE From(mantissa_str, Unwrap(dot) + 1),
                   exp_val))

\* normalize_number, lines 161-166.
NormalizeSigned(negative, mantissa_str, exp_val) ==
    NormalizeSplit(negative, mantissa_str, Find(mantissa_str, "."), exp_val)

NormalizeMantissa(mantissa_str, exp_val) ==
    NormalizeSigned(StartsWith(mantissa_str, "-"),
                    IF StartsWith(mantissa_str, "-") THEN From(mantissa_str, 1)
                    ELSE mantissa_str,
                    exp_val)

\* normalize_number, lines 149-159.
NormalizeAt(s, e_pos) ==
    NormalizeMantissa(IF e_pos = None THEN s ELSE Slice(s, 0, Unwrap(e_pos)),
                      IF e_pos = None THEN 0
                      ELSE UnwrapOr(ParseI32(From(s, Unwrap(e_pos) + 1)), 0))

normalize_number(s) == NormalizeAt(s, FindE(s, 0))

\* round_number, lines 256-278.
RoundParts(negative, int_part, frac_part) ==
    IF int_part = "0" /\ frac_part = "" THEN "0."
    ELSE IF negative THEN "-" \o int_part \o "." \o frac_part
    ELSE int_part \o "." \o frac_part

\* Truncate rounding half up where that needs no carry.
RoundHalfUp(frac_part, max_dec) ==
    IF /\ max_dec >= 1 /\ Len(frac_part) > max_dec
       /\ At(frac_part, max_dec) \in {"5", "6", "7", "8", "9"}
       /\ At(frac_part, max_dec - 1) # "9"
    THEN Slice(frac_part, 0, max_dec - 1)
         \o DigitChar(DigitVal(At(frac_part, max_dec - 1)) + 1)
    ELSE StripTrailingZeros(IF Len(frac_part) > max_dec THEN Slice(frac_part, 0, max_dec)
                            ELSE frac_part)

Truncate(frac_part, max_dec) ==
    StripTrailingZeros(IF Len(frac_part) > max_dec THEN Slice(frac_part, 0, max_dec)
                       ELSE frac_part)

RoundSplit(negative, body, dot, max_dec) ==
    RoundParts(negative, Slice(body, 0, dot), Truncate(From(body, dot + 1), max_dec))

RoundSigned(negative, body, max_dec) ==
    RoundSplit(negative, body, Unwrap(Find(body, ".")), max_dec)

RoundNormalized(normalized, max_dec) ==
    IF Find(normalized, ".") = None THEN normalized
    ELSE RoundSigned(StartsWith(normalized, "-"),
                     IF StartsWith(normalized, "-") THEN From(normalized, 1) ELSE normalized,
                     max_dec)

round_number(s, max_dec) == RoundNormalized(normalize_number(s), max_dec)

\* normalize_numbers_in_line: md is an Option.
Replacement(num_str, md) ==
    IF md # None THEN round_number(num_str, Unwrap(md)) ELSE normalize_number(num_str)

RECURSIVE normalize_numbers_loop(_, _, _, _, _)
normalize_numbers_loop(rhs, md, ms, i, last_pos) ==
    IF i > Len(ms) THEN From(rhs, last_pos)
    ELSE Slice(rhs, last_pos, ms[i].start)
         \o Replacement(Slice(rhs, ms[i].start, ms[i].end), md)
         \o normalize_numbers_loop(rhs, md, ms, i + 1, ms[i].end)

normalize_numbers_in_line(rhs, md) ==
    normalize_numbers_loop(rhs, md, find_numbers(rhs), 1, 0)

\* The offset one past the run of [A-Z_] that starts at p.
RECURSIVE EatUpper(_, _)
EatUpper(s, p) ==
    IF p < Len(s) /\ (is_ascii_uppercase(At(s, p)) \/ At(s, p) = "_")
    THEN EatUpper(s, p + 1)
    ELSE p

\* StripName with the name left in place.
KeepName(rhs, prefix_end, q) == rhs

\* normalize_entity_name, lines 338-357: q is the closing quote, if any.
StripName(rhs, prefix_end, q) ==
    IF q = None THEN rhs
    ELSE Slice(rhs, 0, prefix_end) \o "''" \o From(rhs, Unwrap(q) + 1)

\* normalize_entity_name, lines 322-336: p is past the run of [A-Z_].
NameAfter(rhs, p) ==
    IF p = 0 THEN rhs
    ELSE IF p >= Len(rhs) \/ At(rhs, p) # "(" THEN rhs
    ELSE IF p + 1 >= Len(rhs) \/ At(rhs, p + 1) # "'" THEN rhs
    ELSE StripName(rhs, p + 1, FindFrom(rhs, "'", p + 2))

normalize_entity_name(rhs) == NameAfter(rhs, EatUpper(rhs, 0))

\* ------------------------------------------------------------- uncertainty

RECURSIVE skip_whitespace(_, _)
skip_whitespace(s, pos) ==
    IF pos < Len(s) /\ is_ascii_whitespace(At(s, pos)) THEN skip_whitespace(s, pos + 1)
    ELSE pos

match_keyword_ci(s, pos, needle) ==
    IF pos + Len(needle) > Len(s) THEN None
    ELSE IF \A i \in 0..(Len(needle) - 1) :
                to_ascii_uppercase_char(At(s, pos + i)) = to_ascii_uppercase_char(At(needle, i))
    THEN Some(pos + Len(needle))
    ELSE None

\* str::parse::<f64>() on a decimal literal ([+-] digits [. digits] [exponent], with
\* a digit in the mantissa): the value as the canonical decimal text of
\* normalize_number, which is exact.  "inf", "nan" and their spellings are outside
\* the model's texts.
ParseF64(s) ==
    LET p0 == IF Len(s) > 0 /\ At(s, 0) \in {"+", "-"} THEN 1 ELSE 0
        p1 == EatDigits(s, p0)
        p2 == IF p1 < Len(s) /\ At(s, p1) = "." THEN EatDigits(s, p1 + 1) ELSE p1
        has_digits == p1 > p0 \/ p2 > p1 + 1
        p3 == try_consume_exponent(s, p2)
        unsigned == IF Len(s) > 0 /\ At(s, 0) = "+" THEN From(s, 1) ELSE s
    IN  IF has_digits /\ p3 = Len(s) THEN Some(normalize_number(unsigned)) ELSE None

\* val > 0.0 for a canonical decimal text.
IsPositive(val) == val # "0." /\ At(val, 0) # "-"

\* (-val.log10()).ceil() as u32 + 1 for a positive canonical decimal text, with
\* log10 taken exactly.  For val >= 1 the ceiling is <= 0 and the cast to u32
\* saturates at 0; for val < 1 with z zeros after the point it is z + 1.
PrecisionOf(val) ==
    LET dot == Unwrap(Find(val, "."))
        int_part == Slice(val, 0, dot)
        frac_part == From(val, dot + 1)
        z == Unwrap(FirstNonZero(frac_part, 0))
    IN  IF int_part # "0" THEN 0 + 1 ELSE (z + 1) + 1

\* One attempt of extract_uncertainty's inner loop at offset start of line: the
\* derived precision, or None when the attempt ends in `continue`.
UncertaintyAt(line, start) ==
    LET m1 == match_keyword_ci(line, start, "UNCERTAINTY_MEASURE_WITH_UNIT")
        p1 == skip_whitespace(line, Unwrap(m1))
        p2 == skip_whitespace(line, p1 + 1)
        m2 == match_keyword_ci(line, p2, "LENGTH_MEASURE")
        p3 == skip_whitespace(line, Unwrap(m2))
        val_start == skip_whitespace(line, p3 + 1)
        close == FindFrom(line, ")", val_start)
        val == ParseF64(Trim(Slice(line, val_start, Unwrap(close))))
    IN  IF m1 = None THEN None
        ELSE IF p1 >= Len(line) \/ At(line, p1) # "(" THEN None
        ELSE IF m2 = None THEN None
        ELSE IF p3 >= Len(line) \/ At(line, p3) # "(" THEN None
        ELSE IF close = None THEN None
        ELSE IF val # None /\ IsPositive(Unwrap(val)) THEN Some(PrecisionOf(Unwrap(val)))
        ELSE None

\* The first of two results that is Some.
FirstSome(a, b) == IF a # None THEN a ELSE b

\* The offsets of a line at which an attempt of the inner loop returns.
Starts(line) == {start \in 0..(Len(line) - 1) : UncertaintyAt(line, start) # None}

Least(S) == CHOOSE x \in S : \A y \in S : x <= y

UncertaintyFrom(line, starts) ==
    IF starts = {} THEN None ELSE UncertaintyAt(line, Least(starts))

\* The inner loop (line 396) over one line: its first return, if any.
UncertaintyInLine(line) == UncertaintyFrom(line, Starts(line))

RECURSIVE extract_uncertainty_from(_, _)
extract_uncertainty_from(data, i) ==
    IF i > Len(data) THEN None
    ELSE FirstSome(UncertaintyInLine(data[i]), extract_uncertainty_from(data, i + 1))

extract_uncertainty(data) == extract_uncertainty_from(data, 1)

\* ------------------------------------------------------------- parser

EmptyParse ==
    [header |-> <<>>, data |-> <<>>, footer |-> <<>>,
     past_header |-> FALSE, past_data |-> FALSE, continuing |-> FALSE]

\* InFooter without the test of past_data.
OnlyEndsec(st, line) == Contains(line, "ENDSEC;")

\* Line 35: a line read after the header is a footer line.
InFooter(st, line) == st.past_data \/ Contains(line, "ENDSEC;")

\* Separator with a space before every continuation.
AlwaysSpace(trimmed) == " "

\* Lines 41-47: what is put before a continuation.
Separator(trimmed) ==
    IF Len(trimmed) > 0 /\ is_ascii_alphabetic(At(trimmed, 0)) THEN " " ELSE ""

\* The body of parse_data_section's loop for one line that was read.
ParseLine(st, line) ==
    IF st.past_header
    THEN IF InFooter(st, line)
         THEN [st EXCEPT !.past_data = TRUE, !.footer = Append(@, line)]
         ELSE LET trimmed == Trim(line)
                  n == Len(st.data)
                  sep == Separator(trimmed)
                  data == IF st.continuing
                          THEN [st.data EXCEPT ![n] = @ \o sep \o trimmed]
                          ELSE Append(st.data, trimmed)
                  te == TrimEnd(line)
              IN  [st EXCEPT !.data = data,
                             !.continuing = ~(Len(te) > 0 /\ At(te, Len(te) - 1) = ";")]
    ELSE [st EXCEPT !.past_header = Contains(line, "DATA;") \/ @,
                    !.header = Append(@, TrimEnd(line))]

RECURSIVE ParseLines(_, _, _)
ParseLines(st, lines, i) ==
    IF i > Len(lines) THEN st ELSE ParseLines(ParseLine(st, lines[i]), lines, i + 1)

\* parse_data_section over a reader that yields every line of `lines`.
parse_data_section(lines) == ParseLines(EmptyParse, lines, 1)

\* ------------------------------------------------------------- deduplicate

TypeBefore(trimmed, pos) ==
    IF pos # None THEN Trim(Slice(trimmed, 0, Unwrap(pos))) ELSE trimmed

TypeOfTrimmed(trimmed) == TypeBefore(trimmed, Find(trimmed, "("))

get_entity_type(rhs) == TypeOfTrimmed(Trim(rhs))

IDENTITY_ENTITIES ==
    {"PRODUCT",
     "PRODUCT_DEFINITION",
     "PRODUCT_DEFINITION_FORMATION",
     "PRODUCT_DEFINITION_FORMATION_WITH_SPECIFIED_SOURCE",
     "PRODUCT_DEFINITION_SHAPE",
     "PRODUCT_DEFINITION_CONTEXT",
     "PRODUCT_DEFINITION_WITH_ASSOCIATED_DOCUMENTS",
     "PRODUCT_RELATED_PRODUCT_CATEGORY",
     "SHAPE_DEFINITION_REPRESENTATION",
     "SHAPE_REPRESENTATION",
     "SHAPE_REPRESENTATION_RELATIONSHIP",
     "ADVANCED_BREP_SHAPE_REPRESENTATION",
     "MANIFOLD_SOLID_BREP",
     "MANIFOLD_SURFACE_SHAPE_REPRESENTATION",
     "GEOMETRICALLY_BOUNDED_SURFACE_SHAPE_REPRESENTATION",
     "GEOMETRICALLY_BOUNDED_WIREFRAME_SHAPE_REPRESENTATION",
     "STYLED_ITEM",
     "OVER_RIDING_STYLED_ITEM",
     "PRESENTATION_LAYER_ASSIGNMENT",
     "APPLICATION_CONTEXT",
     "APPLICATION_PROTOCOL_DEFINITION",
     "PRODUCT_CONTEXT",
     "DESIGN_CONTEXT"}

\* is_identity_entity with an empty list of identity types.
NeverIdentity(entity_type) == FALSE

is_identity_entity(entity_type) == entity_type \in IDENTITY_ENTITIES

\* The comparison key of a right-hand side (lines 79-80).
CanonicalKey(rhs, md) ==
    normalize_entity_name(normalize_numbers_in_line(rhs, md))

\* while uniques.contains_key(&norm_rhs) { norm_rhs.push(' ') }
RECURSIVE ForceUnique(_, _)
ForceUnique(uniques, norm_rhs) ==
    IF norm_rhs \in DOMAIN uniques THEN ForceUnique(uniques, norm_rhs \o " ") ELSE norm_rhs

\* A pass's state: its maps, its output, and for each line read so far the id the
\* pass gave it (0 for a line it skipped).
EmptyPass ==
    [uniques |-> <<>>, lookup |-> <<>>, out_lines |-> <<>>, assigned |-> <<>>,
     panicked |-> FALSE]

\* EntityLine with the ids counted from 2.
EntityLineFromTwo(new_id, rhs) == "#" \o to_string(new_id + 1) \o "=" \o rhs

\* format!("#{new_id}={rhs}")
EntityLine(new_id, rhs) == "#" \o to_string(new_id) \o "=" \o rhs

\* KeepEntity with the canonical key kept as the entity's content.
KeepCanonical(st, old_num, rhs, key) ==
    [st EXCEPT !.uniques = (key :> (Len(st.out_lines) + 1)) @@ @,
               !.lookup = (old_num :> (Len(st.out_lines) + 1)) @@ @,
               !.out_lines = Append(@, "#" \o to_string(Len(st.out_lines) + 1) \o "=" \o key),
               !.assigned = Append(@, Len(st.out_lines) + 1)]

\* Lines 86-89 and 94-97: the entity is kept under `key`, with the next id and its
\* raw right-hand side.
KeepEntity(st, old_num, rhs, key) ==
    [st EXCEPT !.uniques = (key :> (Len(st.out_lines) + 1)) @@ @,
               !.lookup = (old_num :> (Len(st.out_lines) + 1)) @@ @,
               !.out_lines = Append(@, EntityLine(Len(st.out_lines) + 1, rhs)),
               !.assigned = Append(@, Len(st.out_lines) + 1)]

\* Line 92: the entity is dropped, its id recorded as existing_id.
MergeEntity(st, old_num, existing_id) ==
    [st EXCEPT !.lookup = (old_num :> existing_id) @@ @,
               !.assigned = Append(@, existing_id)]

\* PlaceEntity deciding on the key with the references the table built so far
\* already gives.
PlaceRemapped(st, old_num, rhs, entity_type, norm_rhs) ==
    IF is_identity_entity(entity_type)
    THEN KeepEntity(st, old_num, rhs,
                    ForceUnique(st.uniques, remap_references(norm_rhs, st.lookup)))
    ELSE IF remap_references(norm_rhs, st.lookup) \in DOMAIN st.uniques
    THEN MergeEntity(st, old_num, st.uniques[remap_references(norm_rhs, st.lookup)])
    ELSE KeepEntity(st, old_num, rhs, remap_references(norm_rhs, st.lookup))

\* Lines 82-98.
PlaceEntity(st, old_num, rhs, entity_type, norm_rhs) ==
    IF is_identity_entity(entity_type)
    THEN KeepEntity(st, old_num, rhs, ForceUnique(st.uniques, norm_rhs))
    ELSE IF norm_rhs \in DOMAIN st.uniques
    THEN MergeEntity(st, old_num, st.uniques[norm_rhs])
    ELSE KeepEntity(st, old_num, rhs, norm_rhs)

\* Lines 73-80, eq being the offset of the line's first '='.  line[1..eq] panics
\* when eq = 0, the slice's start being past its end.
DedupEntity(st, line, eq, md) ==
    IF eq < 1 THEN [st EXCEPT !.panicked = TRUE]
    ELSE PlaceEntity(st, UnwrapOr(ParseU32(Slice(line, 1, eq)), 0),
                     Trim(From(line, eq + 1)),
                     get_entity_type(Trim(From(line, eq + 1))),
                     CanonicalKey(Trim(From(line, eq + 1)), md))

\* The body of the pass's first loop for one line.
DedupLine(st, line, md) ==
    IF Find(line, "=") = None THEN [st EXCEPT !.assigned = Append(@, 0)]
    ELSE DedupEntity(st, line, Unwrap(Find(line, "=")), md)

RECURSIVE DedupLines(_, _, _, _)
DedupLines(st, lines, i, md) ==
    IF i > Len(lines) \/ st.panicked THEN st
    ELSE DedupLines(DedupLine(st, lines[i], md), lines, i + 1, md)

\* RemapLine with the references left as they are.
RemapLineSkipped(line, table) == line

\* The pass's second loop for one surviving line.
RemapLine(line, table) ==
    LET eq == Unwrap(Find(line, "="))
    IN  Slice(line, 0, eq) \o "=" \o remap_references(From(line, eq + 1), table)

\* Lines 101-107.
Remapped(st) ==
    IF st.panicked THEN st
    ELSE [st EXCEPT !.out_lines = [k \in DOMAIN st.out_lines |->
                                      RemapLine(st.out_lines[k], st.lookup)]]

\* One iteration of deduplicate's loop, up to its exit test.
DedupPass(lines, md) == Remapped(DedupLines(EmptyPass, lines, 1, md))

\* LoopEnds with `<` for `<=`.
EndsWhenLonger(in_len, out_len) == in_len < out_len

\* Lines 109-111: the exit test of deduplicate's loop.
LoopEnds(in_len, out_len) == in_len <= out_len

\* deduplicate: the passes repeated until one does not shorten the list.  The
\* result is [out_lines, panicked].
RECURSIVE deduplicate(_, _)
AfterPass(data, md, pass) ==
    IF pass.panicked THEN [out_lines |-> <<>>, panicked |-> TRUE]
    ELSE IF LoopEnds(Len(data), Len(pass.out_lines))
    THEN [out_lines |-> pass.out_lines, panicked |-> FALSE]
    ELSE deduplicate(pass.out_lines, md)

deduplicate(data, md) == AfterPass(data, md, DedupPass(data, md))

\* ------------------------------------------------------------- orphans

GC_ROOT_ENTITIES ==
    {"APPLICATION_CONTEXT",
     "APPLICATION_PROTOCOL_DEFINITION",
     "CONTEXT_DEPENDENT_SHAPE_REPRESENTATION",
     "DRAUGHTING_MODEL",
     "MECHANICAL_DESIGN_GEOMETRIC_PRESENTATION_REPRESENTATION",
     "PRESENTATION_LAYER_ASSIGNMENT",
     "PRODUCT_DEFINITION",
     "SHAPE_DEFINITION_REPRESENTATION",
     "SHAPE_REPRESENTATION_RELATIONSHIP"}

\* The id a line of remove_orphans carries: None when the loops `continue`.
IdBefore(line, eq) ==
    IF eq = None THEN None ELSE ParseU32(Trim(Slice(line, 1, Unwrap(eq))))

OrphanId(line) == IdBefore(line, Find(line, "="))

OrphanRhs(line) == From(line, Unwrap(Find(line, "=")) + 1)

\* remove_orphans' first loop: id_to_rhs and id_to_refs, a later line replacing
\* an earlier one of the same id.
\* Lines 44-46.
InsertEntity(m, eid, rhs) ==
    [id_to_rhs |-> (eid :> rhs) @@ m.id_to_rhs,
     id_to_refs |-> (eid :> collect_references(rhs)) @@ m.id_to_refs]

MapLine(m, line, eid) ==
    IF eid = None THEN m ELSE InsertEntity(m, Unwrap(eid), OrphanRhs(line))

RECURSIVE BuildMaps(_, _, _)
BuildMaps(m, lines, i) ==
    IF i > Len(lines) THEN m
    ELSE BuildMaps(MapLine(m, lines[i], OrphanId(lines[i])), lines, i + 1)

EmptyMaps == [id_to_rhs |-> <<>>, id_to_refs |-> <<>>]

\* RootIds with an empty list of root types.
NoRoots(id_to_rhs) == {}

\* The entities the seeding loop pushes.
RootIds(id_to_rhs) ==
    {eid \in DOMAIN id_to_rhs : get_entity_type(id_to_rhs[eid]) \in GC_ROOT_ENTITIES}

\* NewlyReached for a walk that follows no reference.
NoneReached(m, reached, eid) == {}

\* NewlyReached without the test of the reachable set.
ReachedAgain(m, reached, eid) ==
    IF eid \in DOMAIN m.id_to_refs
    THEN {r \in m.id_to_refs[eid] : r \in DOMAIN m.id_to_rhs}
    ELSE {}

\* The ids one visit of the walk marks and pushes for the popped entity eid.
NewlyReached(m, reached, eid) ==
    IF eid \in DOMAIN m.id_to_refs
    THEN {r \in m.id_to_refs[eid] : r \notin reached /\ r \in DOMAIN m.id_to_rhs}
    ELSE {}

\* The orders in which a hash set or hash map may hand out the elements of S.
Orders(S) ==
    {q \in [1..Cardinality(S) -> S] : \A i, j \in 1..Cardinality(S) : q[i] = q[j] => i = j}

\* remove_orphans' last loops: the reached lines renumbered.  `assigned`
\* records for each input line its new id (0 for a line not kept).
\* Lines 91-95, and the skipped lines.
SweepLine(st, line, eid, reached) ==
    IF eid # None /\ Unwrap(eid) \in reached
    THEN [renumber |-> (Unwrap(eid) :> (Len(st.surviving) + 1)) @@ st.renumber,
          surviving |-> Append(st.surviving,
                               [new_id |-> Len(st.surviving) + 1, rhs |-> OrphanRhs(line)]),
          assigned |-> Append(st.assigned, Len(st.surviving) + 1)]
    ELSE [st EXCEPT !.assigned = Append(@, 0)]

RECURSIVE SweepLines(_, _, _, _)
SweepLines(st, lines, i, reached) ==
    IF i > Len(lines) THEN st
    ELSE SweepLines(SweepLine(st, lines[i], OrphanId(lines[i]), reached),
                    lines, i + 1, reached)

EmptySweep == [renumber |-> <<>>, surviving |-> <<>>, assigned |-> <<>>]

Identity(n) == [k \in 1..n |-> k]

\* Lines 96-102: a surviving entity's line.
SweptLine(new_id, rhs, renumber) ==
    "#" \o to_string(new_id) \o "=" \o remap_references(rhs, renumber)

\* Lines 77-103, for a reached set that is not empty.
Rebuild(st) ==
    [lines |-> [k \in DOMAIN st.surviving |->
                   SweptLine(st.surviving[k].new_id, st.surviving[k].rhs, st.renumber)],
     assigned |-> st.assigned]

\* Lines 73-103: [lines, assigned] for a reached set.
Sweep(lines, reached) ==
    IF reached = {} THEN [lines |-> lines, assigned |-> Identity(Len(lines))]
    ELSE Rebuild(SweepLines(EmptySweep, lines, 1, reached))

\* One of the orders in which the elements of S may be handed out.
SomeOrder(S) == CHOOSE q \in Orders(S) : TRUE

WalkOn(m, reached, rest, new) == [reached |-> reached \cup new, work |-> rest \o SomeOrder(new)]

\* The walk of lines 62-71 run to its end, the hash sets read in one of their orders.
RECURSIVE Walk(_, _)
WalkStep(m, st) ==
    Walk(m, WalkOn(m, st.reached, SubSeq(st.work, 1, Len(st.work) - 1),
                   NewlyReached(m, st.reached, st.work[Len(st.work)])))

Walk(m, st) == IF st.work = <<>> THEN st.reached ELSE WalkStep(m, st)

\* The seeding loop had it stopped at the first root the hash map hands out.
SeedFirstOnly(roots) ==
    IF roots = {} THEN {[reached |-> {}, work |-> <<>>]}
    ELSE {[reached |-> {r}, work |-> <<r>>] : r \in roots}

\* Lines 50-59: the reachable set and the work-list after the seeding loop, one
\* for each order in which the hash map may hand out the roots.
SeedStates(roots) == {[reached |-> roots, work |-> q] : q \in Orders(roots)}

Seeded(m, roots) == Walk(m, CHOOSE sd \in SeedStates(roots) : TRUE)

Reached(m) == Seeded(m, RootIds(m.id_to_rhs))

\* remove_orphans as a function of its input.
remove_orphans(lines) == Sweep(lines, Reached(BuildMaps(EmptyMaps, lines, 1))).lines

\* ------------------------------------------------------------- reduce

vars == <<pc, input, read_failed, parse, options, max_decimals, in_lines, out_lines,
          lookup, passes, maps, reachable, stack, data_lines, output, result, origin,
          assigned, kept>>

\* The bounds of the model: the lines a file may hold in each section and in all,
\* the last line at which a read may fail, and the lines a failed write may leave.
MaxHeader == 2
MaxLines == 4
MaxFooter == 2
MaxFileLines == 5
MaxFaultLine == 3
MaxPartial == 1

HeaderPool == {"HEADER; ", "DATA;"}

\* The data lines a file is made of: two entities that differ in name and in the
\* spelling of a number, two that differ in a reference and past the first decimal,
\* two identity entities of a root type, a line with no '=' and one that starts
\* with it.
DataPool ==
    {"#1=A('',0.1);",
     "#2=A('x',1.0E-1);",
     "#3=UNCERTAINTY_MEASURE_WITH_UNIT(LENGTH_MEASURE(0.5),#1);",
     "#4=UNCERTAINTY_MEASURE_WITH_UNIT(LENGTH_MEASURE(0.504),#2);",
     "#5=PRODUCT_DEFINITION('a',#3);",
     "#6=PRODUCT_DEFINITION('b',#3);",
     "FOO;",
     "=X;"}

FooterPool == {"ENDSEC;", "END-ISO-10303-21;"}

MaxDecimalsChoices == {None, Some(1), Some(3)}

NoOptions == [max_decimals |-> None, use_step_precision |-> FALSE]

Init ==
    /\ pc = "start"
    /\ input = <<>>
    /\ read_failed = FALSE
    /\ parse = EmptyParse
    /\ options = NoOptions
    /\ max_decimals = None
    /\ in_lines = <<>>
    /\ out_lines = <<>>
    /\ lookup = <<>>
    /\ passes = 0
    /\ maps = EmptyMaps
    /\ reachable = {}
    /\ stack = <<>>
    /\ data_lines = <<>>
    /\ output = None
    /\ result = "none"
    /\ origin = <<>>
    /\ assigned = <<>>
    /\ kept = <<>>

\* `?` on an io::Error: reduce returns Err(ReduceError::Io(..)).
ReturnErr ==
    /\ pc' = "done"
    /\ result' = "Err"

\* Lines 58-63, options.verbose set: the file is opened and its lines counted.
\* The count is only logged.
CountLines ==
    /\ pc = "start"
    /\ \/ /\ pc' = "open"
          /\ UNCHANGED result
       \/ ReturnErr
    /\ UNCHANGED <<input, read_failed, parse, options, max_decimals, in_lines, out_lines,
                   lookup, passes, maps, reachable, stack, data_lines, output, origin,
                   assigned, kept>>

\* Line 65: File::open(input)?
OpenInput ==
    /\ pc \in {"start", "open"}
    /\ \/ /\ pc' = "read"
          /\ UNCHANGED result
       \/ ReturnErr
    /\ UNCHANGED <<input, read_failed, parse, options, max_decimals, in_lines, out_lines,
                   lookup, passes, maps, reachable, stack, data_lines, output, origin,
                   assigned, kept>>

\* The lines the file may hold next, by section.  An id names one entity of a
\* file, so a file holds a line of the pool at most once.
NextLines ==
    IF Len(input) >= MaxFileLines THEN {}
    ELSE IF ~parse.past_header
    THEN IF Len(parse.header) < MaxHeader THEN HeaderPool ELSE {}
    ELSE IF ~parse.past_data
    THEN (IF Len(input) - Len(parse.header) < MaxLines
          THEN {line \in DataPool : \A i \in DOMAIN input : input[i] # line}
          ELSE {})
         \cup {"ENDSEC;"}
    ELSE IF Len(parse.footer) < MaxFooter THEN FooterPool ELSE {}

\* parse.rs, lines 28-62: the reader yields Ok(line).
ReadLine ==
    /\ pc = "read"
    /\ \E line \in NextLines :
          /\ input' = Append(input, line)
          /\ parse' = ParseLine(parse, line)
    /\ UNCHANGED <<pc, read_failed, options, max_decimals, in_lines, out_lines, lookup,
                   passes, maps, reachable, stack, data_lines, output, result, origin,
                   assigned, kept>>

\* The reader is at the end of the file: the loop ends.
ReadEof ==
    /\ pc = "read"
    /\ pc' = "precision"
    /\ UNCHANGED <<input, read_failed, parse, options, max_decimals, in_lines, out_lines,
                   lookup, passes, maps, reachable, stack, data_lines, output, result,
                   origin, assigned, kept>>

\* parse.rs, lines 29-32: the reader yields Err(_) and the loop breaks;
\* parse_data_section returns what it has.
ReadError ==
    /\ pc = "read"
    /\ Len(input) < MaxFaultLine
    /\ pc' = "precision"
    /\ read_failed' = TRUE
    /\ UNCHANGED <<input, parse, options, max_decimals, in_lines, out_lines, lookup,
                   passes, maps, reachable, stack, data_lines, output, result, origin,
                   assigned, kept>>

\* Combine with the larger of the two bounds.
CombineLarger(current, step_decimals) ==
    IF current # None
    THEN Some(IF Unwrap(current) >= step_decimals THEN Unwrap(current) ELSE step_decimals)
    ELSE Some(step_decimals)

\* Lines 78-81: the bound when a precision was derived.
Combine(current, step_decimals) ==
    IF current # None
    THEN Some(IF Unwrap(current) <= step_decimals THEN Unwrap(current) ELSE step_decimals)
    ELSE Some(step_decimals)

\* Lines 71-82.
Effective(opts, step_decimals) ==
    IF opts.use_step_precision /\ step_decimals # None
    THEN Combine(opts.max_decimals, Unwrap(step_decimals))
    ELSE opts.max_decimals

\* Lines 69-82: the bound handed to deduplicate.
EffectiveDecimals(opts, data) == Effective(opts, extract_uncertainty(data))

\* Lines 69-84 up to the call of deduplicate, and deduplicate's line 60.
Precision ==
    /\ pc = "precision"
    /\ \E md \in MaxDecimalsChoices, usp \in BOOLEAN :
          /\ options' = [max_decimals |-> md, use_step_precision |-> usp]
          /\ max_decimals' = EffectiveDecimals(options', parse.data)
    /\ out_lines' = parse.data
    /\ origin' = Identity(Len(parse.data))
    /\ pc' = "dedup"
    /\ UNCHANGED <<input, read_failed, parse, in_lines, lookup, passes, maps, reachable,
                   stack, data_lines, output, result, assigned, kept>>

\* origin after a step that gave the lines of the current list the ids `ids`.
Follow(org, ids) == [i \in DOMAIN org |-> IF org[i] = 0 THEN 0 ELSE ids[org[i]]]

\* deduplicate.rs, lines 62-112: one iteration of the loop, `pass` being what it
\* computes.
DedupDone(pass) ==
    IF pass.panicked
    THEN /\ pc' = "done"
         /\ result' = "Panic"
         /\ UNCHANGED <<in_lines, out_lines, lookup, passes, origin, assigned>>
    ELSE /\ in_lines' = out_lines
         /\ out_lines' = pass.out_lines
         /\ lookup' = pass.lookup
         /\ passes' = passes + 1
         /\ origin' = Follow(origin, pass.assigned)
         /\ assigned' = pass.assigned
         /\ pc' = IF LoopEnds(Len(out_lines), Len(pass.out_lines)) THEN "orphans"
                  ELSE "dedup"
         /\ UNCHANGED result

DedupStep ==
    /\ pc = "dedup"
    /\ DedupDone(DedupPass(out_lines, max_decimals))
    /\ UNCHANGED <<input, read_failed, parse, options, max_decimals, maps, reachable,
                   stack, data_lines, output, kept>>

\* orphans.rs, lines 33-59: the maps are built and the roots seeded, in the order
\* the hash map hands them out.
OrphansSeed ==
    /\ pc = "orphans"
    /\ maps' = BuildMaps(EmptyMaps, out_lines, 1)
    /\ \E sd \in SeedStates(RootIds(maps'.id_to_rhs)) :
          /\ reachable' = sd.reached
          /\ stack' = sd.work
    /\ pc' = "walk"
    /\ UNCHANGED <<input, read_failed, parse, options, max_decimals, in_lines, out_lines,
                   lookup, passes, data_lines, output, result, origin, assigned, kept>>

\* orphans.rs, lines 62-71: one iteration of the walk.
OrphansVisit ==
    /\ pc = "walk"
    /\ stack # <<>>
    /\ LET eid == stack[Len(stack)]
           new == NewlyReached(maps, reachable, eid)
       IN  /\ reachable' = reachable \cup new
           /\ \E order \in Orders(new) :
                 stack' = SubSeq(stack, 1, Len(stack) - 1) \o order
    /\ UNCHANGED <<pc, input, read_failed, parse, options, max_decimals, in_lines,
                   out_lines, lookup, passes, maps, data_lines, output, result, origin,
                   assigned, kept>>

\* orphans.rs, lines 73-103: the work-list is empty.
Swept(sw) ==
    /\ data_lines' = sw.lines
    /\ origin' = Follow(origin, sw.assigned)
    /\ kept' = sw.assigned

OrphansSweep ==
    /\ pc = "walk"
    /\ stack = <<>>
    /\ Swept(Sweep(out_lines, reachable))
    /\ pc' = "create"
    /\ UNCHANGED <<input, read_failed, parse, options, max_decimals, in_lines, out_lines,
                   lookup, passes, maps, reachable, stack, output, result, assigned>>

\* The position of File::create in reduce had it come right after File::open.
CreateWhileReading == "read"

\* The position of File::create in reduce: after remove_orphans has returned.
CreatePosition == "create"

\* Line 87: File::create(output)?
CreateOutput ==
    /\ pc = CreatePosition
    /\ \/ /\ pc' = "write"
          /\ output' = Some(<<>>)
          /\ UNCHANGED result
       \/ /\ ReturnErr
          /\ UNCHANGED output
    /\ UNCHANGED <<input, read_failed, parse, options, max_decimals, in_lines, out_lines,
                   lookup, passes, maps, reachable, stack, data_lines, origin, assigned,
                   kept>>

\* OutputLines with the footer written before the data lines.
OutputDataLast(header, data, footer) == header \o footer \o data

\* What lines 90-100 write when nothing fails.
OutputLines(header, data, footer) == header \o data \o footer

\* Lines 90-107: the lines are written and flushed; a failed write or flush leaves
\* the first k of them in the file.
WriteOutput ==
    /\ pc = "write"
    /\ LET all == OutputLines(parse.header, data_lines, parse.footer)
       IN  \/ /\ output' = Some(all)
              /\ pc' = "done"
              /\ result' = "Ok"
           \/ /\ \E k \in 0..MaxPartial : k <= Len(all) /\ output' = Some(SubSeq(all, 1, k))
              /\ ReturnErr
    /\ UNCHANGED <<input, read_failed, parse, options, max_decimals, in_lines, out_lines,
                   lookup, passes, maps, reachable, stack, data_lines, origin, assigned,
                   kept>>

Next ==
    \/ CountLines
    \/ OpenInput
    \/ ReadLine
    \/ ReadEof
    \/ ReadError
    \/ Precision
    \/ DedupStep
    \/ OrphansSeed
    \/ OrphansVisit
    \/ OrphansSweep
    \/ CreateOutput
    \/ WriteOutput

Spec == Init /\ [][Next]_vars

\* ------------------------------------------------------------- the reduction as a function

\* lib.rs, lines 69-98, for a parse result: the lines reduce writes.
Reduced(parsed, opts) ==
    OutputLines(parsed.header,
                remove_orphans(deduplicate(parsed.data,
                                           EffectiveDecimals(opts, parsed.data)).out_lines),
                parsed.footer)

\* reduce on a file that holds `lines`, when no operation fails.
reduce(lines, opts) == Reduced(parse_data_section(lines), opts)

\* ------------------------------------------------------------- the number functions on literals

\* The bounds of the literals: the digits of an integer or fractional part, the
\* size of an exponent, and the bound handed to round_number.
MaxDigits == 2
MaxExp == 2
MaxRound == 5

\* The strings of at most n digits over 0 and 5.
RECURSIVE DigitStrings(_)
DigitStrings(n) ==
    IF n = 0 THEN {""}
    ELSE DigitStrings(n - 1)
         \cup {d \o t : d \in {"0", "5"}, t \in {u \in DigitStrings(n - 1) : Len(u) = n - 1}}

\* The exponents of a literal as find_numbers takes them: `E` or `e`, an optional
\* sign, digits.
Exponents ==
    {[text |-> "E" \o to_string(k), val |-> k] : k \in 0..MaxExp}
        \cup {[text |-> "e+" \o to_string(k), val |-> k] : k \in 1..MaxExp}
        \cup {[text |-> "E-" \o to_string(k), val |-> 0 - k] : k \in 1..MaxExp}

NoExponent == [text |-> "", val |-> 0]

Literal(neg, int, dot, frac, exp) ==
    [neg |-> neg, int |-> int, frac |-> frac, exp |-> exp.val,
     text |-> (IF neg THEN "-" ELSE "") \o int \o (IF dot THEN "." ELSE "") \o frac
              \o exp.text]

\* The literals the unit tests of normalize.rs use.
TestLiterals ==
    {Literal(FALSE, "1", TRUE, "0", NoExponent),
     Literal(FALSE, "3", TRUE, "14", NoExponent),
     Literal(TRUE, "0", TRUE, "5", NoExponent),
     Literal(FALSE, "1", TRUE, "0", [text |-> "E-3", val |-> 0 - 3]),
     Literal(FALSE, "2", TRUE, "5", [text |-> "e+2", val |-> 2]),
     Literal(FALSE, "", TRUE, "5", NoExponent),
     Literal(TRUE, "0", TRUE, "0", NoExponent),
     Literal(FALSE, "1", TRUE, "200", NoExponent),
     Literal(FALSE, "3", TRUE, "14159", NoExponent)}

\* The literals of find_numbers' three forms within the bounds: digits, a point
\* and optional digits and exponent; digits and an exponent; a point, digits and
\* an optional exponent; each with an optional minus.
Literals ==
    TestLiterals
        \cup {Literal(neg, int, TRUE, frac, exp) :
                 neg \in BOOLEAN, int \in DigitStrings(MaxDigits) \ {""},
                 frac \in DigitStrings(MaxDigits), exp \in Exponents \cup {NoExponent}}
        \cup {Literal(neg, int, FALSE, "", exp) :
                 neg \in BOOLEAN, int \in DigitStrings(MaxDigits) \ {""}, exp \in Exponents}
        \cup {Literal(neg, "", TRUE, frac, exp) :
                 neg \in BOOLEAN, frac \in DigitStrings(MaxDigits) \ {""},
                 exp \in Exponents \cup {NoExponent}}

\* A literal is at hand; nothing of reduce has run.
NumberInit ==
    /\ pc = "literal"
    /\ \E l \in Literals : input = <<l.text>>
    /\ read_failed = FALSE
    /\ parse = EmptyParse
    /\ options = NoOptions
    /\ max_decimals = None
    /\ in_lines = <<>>
    /\ out_lines = <<>>
    /\ lookup = <<>>
    /\ passes = 0
    /\ maps = EmptyMaps
    /\ reachable = {}
    /\ stack = <<>>
    /\ data_lines = <<>>
    /\ output = None
    /\ result = "none"
    /\ origin = <<>>
    /\ assigned = <<>>
    /\ kept = <<>>

\* normalize_number applied to the literal.
NormalizeNumber ==
    /\ pc = "literal"
    /\ out_lines' = <<normalize_number(input[1])>>
    /\ pc' = "normalized"
    /\ UNCHANGED <<input, read_failed, parse, options, max_decimals, in_lines, lookup,
                   passes, maps, reachable, stack, data_lines, output, result, origin,
                   assigned, kept>>

\* normalize_number applied to what it returned.
NormalizeAgain ==
    /\ pc = "normalized"
    /\ data_lines' = <<normalize_number(out_lines[1])>>
    /\ pc' = "renormalized"
    /\ UNCHANGED <<input, read_failed, parse, options, max_decimals, in_lines, out_lines,
                   lookup, passes, maps, reachable, stack, output, result, origin,
                   assigned, kept>>

\* round_number applied to the literal and a bound.
RoundNumber ==
    /\ pc = "literal"
    /\ \E max_dec \in 0..MaxRound :
          /\ max_decimals' = Some(max_dec)
          /\ out_lines' = <<round_number(input[1], max_dec)>>
    /\ pc' = "rounded"
    /\ UNCHANGED <<input, read_failed, parse, options, in_lines, lookup, passes, maps,
                   reachable, stack, data_lines, output, result, origin, assigned, kept>>

NumberSpec == NumberInit /\ [][NormalizeNumber \/ NormalizeAgain \/ RoundNumber]_vars

\* ------------------------------------------------------------- the parser on any lines

\* The bound of the files the parser is run on alone.
MaxParseLines == 5

\* The lines of those files, in any order: a header line with trailing
\* whitespace, the two section lines, the start of a statement, a continuation
\* that starts with a letter, one that starts with a comma and ends the statement,
\* and an empty line.
LinePool == {"HEADER; ", "ENDSEC;", "DATA;", "#1=A(", " B,", ",#2); ", ""}

\* The reader is open on a file; nothing has been read.
ParseInit ==
    /\ pc = "read"
    /\ input = <<>>
    /\ read_failed = FALSE
    /\ parse = EmptyParse
    /\ options = NoOptions
    /\ max_decimals = None
    /\ in_lines = <<>>
    /\ out_lines = <<>>
    /\ lookup = <<>>
    /\ passes = 0
    /\ maps = EmptyMaps
    /\ reachable = {}
    /\ stack = <<>>
    /\ data_lines = <<>>
    /\ output = None
    /\ result = "none"
    /\ origin = <<>>
    /\ assigned = <<>>
    /\ kept = <<>>

\* parse.rs, lines 28-62: the reader yields Ok(line), any line of the pool.
ReadAnyLine ==
    /\ pc = "read"
    /\ Len(input) < MaxParseLines
    /\ \E line \in LinePool :
          /\ input' = Append(input, line)
          /\ parse' = ParseLine(parse, line)
    /\ UNCHANGED <<pc, read_failed, options, max_decimals, in_lines, out_lines, lookup,
                   passes, maps, reachable, stack, data_lines, output, result, origin,
                   assigned, kept>>

ParseSpec == ParseInit /\ [][ReadAnyLine \/ ReadEof \/ ReadError]_vars

\* ------------------------------------------------------------- deduplicate on any list

\* The lists of at most n lines of a pool.
RECURSIVE ListsOf(_, _)
ListsOf(pool, n) ==
    IF n = 0 THEN {<<>>}
    ELSE ListsOf(pool, n - 1)
         \cup {Append(l, line) : l \in {k \in ListsOf(pool, n - 1) : Len(k) = n - 1},
                                 line \in pool}

\* deduplicate is called with a list and a bound: line 60.  The lists are those of
\* the pool, the list of the unit test removes_duplicates (lines 138-144), lists
\* of entities with labels, a list that names one entity as #1 and as #01, and a
\* list with blanks around the `=` of a line.
DedupInit ==
    /\ pc = "dedup"
    /\ input = <<>>
    /\ read_failed = FALSE
    /\ \E data \in ListsOf(DataPool, MaxLines)
                    \cup {<<"#1=CARTESIAN_POINT('',0.,0.,0.)",
                             "#2=CARTESIAN_POINT('',0.,0.,0.)",
                             "#3=DIRECTION('',1.,0.,0.)",
                             "#4=AXIS2_PLACEMENT_3D('',#1,#3,#3)",
                             "#5=AXIS2_PLACEMENT_3D('',#2,#3,#3)">>}
                    \cup {<<"#1=" \o t \o "('" \o a \o "',0.50)",
                             "#2=" \o t \o "('" \o b \o "',0.5)",
                             "#3=D(#1,'" \o a \o "')",
                             "#4=D(#1,'" \o b \o "')">> :
                              t \in {"B_C", "AXIS2_PLACEMENT_3D"},
                              a \in {"", "x"}, b \in {"x", "My Part"}}
                    \cup {<<"#1=A(0.1);", "#2=B(#1);", "#3=B(#01);">>,
                          <<"#5 = A('',0.1);", "#7=B(#5);">>} :
          /\ parse = [EmptyParse EXCEPT !.data = data]
          /\ out_lines = data
          /\ origin = Identity(Len(data))
    /\ options = NoOptions
    /\ max_decimals \in MaxDecimalsChoices
    /\ in_lines = <<>>
    /\ lookup = <<>>
    /\ passes = 0
    /\ maps = EmptyMaps
    /\ reachable = {}
    /\ stack = <<>>
    /\ data_lines = <<>>
    /\ output = None
    /\ result = "none"
    /\ assigned = <<>>
    /\ kept = <<>>

\* The loop of deduplicate goes on while it has a pass to make: weak fairness of
\* DedupStep, which is enabled exactly while pc = "dedup".
DedupSpec ==
    DedupInit /\ [][DedupStep]_vars /\ ([]<>(pc # "dedup") \/ []<><<DedupStep>>_vars)

\* ------------------------------------------------------------- extract_uncertainty on any list

MaxMeasures == 2

\* reduce from its line 69 on, with data lines that hold uncertainty declarations:
\* values below, at and above 1, a zero, a negative and an unparsable value, the
\* keywords in small letters with blanks, two declarations in one line, and none.
UncertaintyInit ==
    /\ pc = "precision"
    /\ input = <<>>
    /\ read_failed = FALSE
    /\ \E data \in ListsOf(
              {"#1=UNCERTAINTY_MEASURE_WITH_UNIT(LENGTH_MEASURE(0.001),#2,'');",
               "#2=UNCERTAINTY_MEASURE_WITH_UNIT(LENGTH_MEASURE(1.),#2,'');",
               "#3=UNCERTAINTY_MEASURE_WITH_UNIT(LENGTH_MEASURE(10.),#2,'');",
               "#4=UNCERTAINTY_MEASURE_WITH_UNIT(LENGTH_MEASURE(0.),#2,'');",
               "#5=uncertainty_measure_with_unit ( length_measure ( -1.0E-2 ) ,#2,'');",
               "#6=UNCERTAINTY_MEASURE_WITH_UNIT(LENGTH_MEASURE(x),#2,'');",
               "#7=A(UNCERTAINTY_MEASURE_WITH_UNIT(LENGTH_MEASURE(-5.)),Uncertainty_Measure_With_Unit( LENGTH_MEASURE(2.0E-2 )),UNCERTAINTY_MEASURE_WITH_UNIT(LENGTH_MEASURE(0.5)));",
               "#8=CARTESIAN_POINT('',0.,0.,0.);"}, MaxMeasures) :
          parse = [EmptyParse EXCEPT !.data = data]
    /\ options = NoOptions
    /\ max_decimals = None
    /\ in_lines = <<>>
    /\ out_lines = <<>>
    /\ lookup = <<>>
    /\ passes = 0
    /\ maps = EmptyMaps
    /\ reachable = {}
    /\ stack = <<>>
    /\ data_lines = <<>>
    /\ output = None
    /\ result = "none"
    /\ origin = <<>>
    /\ assigned = <<>>
    /\ kept = <<>>

UncertaintySpec == UncertaintyInit /\ [][Precision]_vars

\* ------------------------------------------------------------- remap_references on any text

MaxPieces == 3
MaxKey == 3

\* The texts of at most n pieces of a pool.
RECURSIVE Texts(_, _)
Texts(pool, n) ==
    IF n = 0 THEN {""}
    ELSE Texts(pool, n - 1) \cup {t \o piece : t \in Texts(pool, n - 1), piece \in pool}

\* remap_references is called with a text and a table: the texts are made of
\* reference tokens, one with a leading zero and one past u32, a lone `#`, a digit
\* and a comma, or are the text of the unit test; the tables send some of the ids
\* up to MaxKey to ids that are keys or not, or are the table of the unit test.
RemapInit ==
    /\ pc = "text"
    /\ \E text \in Texts({"#1", "#2", "#3", "#01", "#", "#4294967296", ",", "2"}, MaxPieces)
                    \cup {"FOO(#1,#2,#3)"} :
          input = <<text>>
    /\ lookup \in UNION {[keys -> {2, 3, 10}] : keys \in SUBSET (1..MaxKey)}
                  \cup {(1 :> 10) @@ (3 :> 30)}
    /\ read_failed = FALSE
    /\ parse = EmptyParse
    /\ options = NoOptions
    /\ max_decimals = None
    /\ in_lines = <<>>
    /\ out_lines = <<>>
    /\ passes = 0
    /\ maps = EmptyMaps
    /\ reachable = {}
    /\ stack = <<>>
    /\ data_lines = <<>>
    /\ output = None
    /\ result = "none"
    /\ origin = <<>>
    /\ assigned = <<>>
    /\ kept = <<>>

\* remap_references applied to the text with the table.
RemapText ==
    /\ pc = "text"
    /\ out_lines' = <<remap_references(input[1], lookup)>>
    /\ pc' = "remapped"
    /\ UNCHANGED <<input, read_failed, parse, options, max_decimals, in_lines, lookup,
                   passes, maps, reachable, stack, data_lines, output, result, origin,
                   assigned, kept>>

RemapSpec == RemapInit /\ [][RemapText]_vars

\* ------------------------------------------------------------- remove_orphans on any list

\* remove_orphans is called with a list (line 32), here of entities whose
\* references go round: a root that names itself, two entities that name each
\* other and one of them the root, an orphan that names itself, and a root and an
\* entity that name each other.
OrphansInit ==
    /\ pc = "orphans"
    /\ input = <<>>
    /\ read_failed = FALSE
    /\ parse = EmptyParse
    /\ \E lines \in ListsOf({"#1=PRODUCT_DEFINITION('',#2,#1);",
                             "#2=A(#3,#2);",
                             "#3=B(#2,#1);",
                             "#4=C(#4);",
                             "#5=PRODUCT_DEFINITION('',#6);",
                             "#6=D(#5);"}, MaxLines) :
          /\ out_lines = lines
          /\ origin = Identity(Len(lines))
    /\ options = NoOptions
    /\ max_decimals = None
    /\ in_lines = <<>>
    /\ lookup = <<>>
    /\ passes = 0
    /\ maps = EmptyMaps
    /\ reachable = {}
    /\ stack = <<>>
    /\ data_lines = <<>>
    /\ output = None
    /\ result = "none"
    /\ assigned = <<>>
    /\ kept = <<>>

\* remove_orphans runs on while it has a step to take: weak fairness of its
\* steps, one of which is enabled exactly until pc = "create".
OrphansSpec ==
    OrphansInit /\ [][OrphansSeed \/ OrphansVisit \/ OrphansSweep]_vars
        /\ ([]<>(pc = "create") \/ []<><<OrphansSeed \/ OrphansVisit \/ OrphansSweep>>_vars)

\* ------------------------------------------------------------- properties

\* The positions of reduce right after a step: after lines 69-82, after a pass of
\* deduplicate, after its last pass, and after remove_orphans.  The variables a step
\* sets stay as they are from there on.
PrecisionRan == pc = "dedup" /\ passes = 0

PassRan == pc \in {"dedup", "orphans"} /\ passes > 0

DedupReturned == pc = "orphans"

SweepRan == pc = "create"

\* The entities of a list: the lines deduplicate gives an id.
Entities(lines) == {i \in DOMAIN lines : Find(lines[i], "=") # None}

\* The id and the content of an entity line.
LineId(line) == UnwrapOr(ParseU32(Slice(line, 1, Unwrap(Find(line, "=")))), 0)
LineRhs(line) == Trim(From(line, Unwrap(Find(line, "=")) + 1))
LineType(line) == get_entity_type(LineRhs(line))

IdentityLine(line) == LineType(line) \in IDENTITY_ENTITIES
RootLine(line) == LineType(line) \in GC_ROOT_ENTITIES

\* The values of the reference tokens of a line's content, in order.
TokenValues(ms) == [t \in DOMAIN ms |-> ms[t].value]

Tokens(line) == TokenValues(ref_matches(LineRhs(line)))

\* The content with the digits of every reference token taken out.
RECURSIVE MaskLoop(_, _, _, _)
MaskLoop(s, ms, i, last) ==
    IF i > Len(ms) THEN From(s, last)
    ELSE Slice(s, last, ms[i].start) \o "#" \o MaskLoop(s, ms, i + 1, ms[i].end)

MaskRefs(s) == MaskLoop(s, ref_matches(s), 1, 0)

\* The first line of `lines` that `ids` sends to k.
FirstTo(ids, k) == Least({i \in DOMAIN ids : ids[i] = k})

\* The tokens `new` are the tokens `old`, each id of an entity of the list `lines`
\* replaced by the id `ids` gives that entity.
Follows(lines, ids, old, new) ==
    /\ Len(new) = Len(old)
    /\ \A t \in DOMAIN old : \A j \in Entities(lines) :
          LineId(lines[j]) = old[t] => new[t] = ids[j]

TokensFollow(lines, ids, from, to) == Follows(lines, ids, Tokens(from), Tokens(to))

\* The ids of the entities of a list.
IdsOf(lines) == {LineId(lines[j]) : j \in Entities(lines)}

Within(lines, ids) ==
    \A i \in Entities(lines) : \A t \in DOMAIN Tokens(lines[i]) : Tokens(lines[i])[t] \in ids

\* Every reference token of the list names an entity of the list.
Closed(lines) == Within(lines, IdsOf(lines))

\* The k-th line carries the id k.
Contiguous(lines) ==
    \A k \in DOMAIN lines :
       /\ At(lines[k], 0) = "#"
       /\ Find(lines[k], "=") # None
       /\ ParseU32(Slice(lines[k], 1, Unwrap(Find(lines[k], "=")))) = Some(k)

\* C1: reduce run on the output of a run that returned Ok, with the same options,
\* writes that output again.
C1_Idempotent ==
    (pc = "done" /\ result = "Ok" /\ ~read_failed)
        => reduce(Unwrap(output), options) = Unwrap(output)

\* The non-identity entities of the list the last pass read, and their keys.
NonIdentity == {i \in Entities(in_lines) : ~IdentityLine(in_lines[i])}

Keys == [i \in NonIdentity |-> CanonicalKey(LineRhs(in_lines[i]), max_decimals)]

\* The pass gave one id to the entities of one key: the id of a line it kept, the
\* first of them; and its table sends the id of each to it.
MergedByKey(S, keys) ==
    /\ \A i, j \in S : (assigned[i] = assigned[j]) <=> (keys[i] = keys[j])
    /\ \A i \in S :
          /\ assigned[i] \in DOMAIN out_lines
          /\ FirstTo(assigned, assigned[i]) \in S
          /\ keys[FirstTo(assigned, assigned[i])] = keys[i]
          /\ lookup[LineId(in_lines[i])] = assigned[i]

ExampleProducts ==
    <<"#1=PRODUCT('a','x',$,(#3));", "#2=PRODUCT('b','x',$,(#3));",
      "#3=PRODUCT_CONTEXT('',$,'design');">>

\* C3: in every pass an entity of an identity type shares its new id with no other
\* entity, so a pass keeps the number of identity entities, and so does deduplicate;
\* the two products of the example both survive the reduction.
C3_IdentityKept ==
    /\ PassRan =>
          /\ \A i, j \in Entities(in_lines) :
                (i # j /\ (IdentityLine(in_lines[i]) \/ IdentityLine(in_lines[j])))
                    => (assigned[i] # assigned[j] /\ assigned[i] > 0)
          /\ Cardinality({i \in Entities(in_lines) : IdentityLine(in_lines[i])})
                = Cardinality({k \in DOMAIN out_lines : IdentityLine(out_lines[k])})
    /\ DedupReturned =>
          \A p, q \in Entities(parse.data) :
             (p # q /\ (IdentityLine(parse.data[p]) \/ IdentityLine(parse.data[q])))
                 => (origin[p] # origin[q] /\ origin[p] > 0)
    /\ pc = "start" =>
          /\ CanonicalKey(LineRhs(ExampleProducts[1]), None)
                = CanonicalKey(LineRhs(ExampleProducts[2]), None)
          /\ reduce(<<"DATA;">> \o ExampleProducts \o <<"ENDSEC;">>, NoOptions)
                = <<"DATA;">> \o ExampleProducts \o <<"ENDSEC;">>

\* C3 witness: deduplicate returned two identity entities of one canonical key, next
\* to a merge of two other entities.
C3_Witness ==
    /\ DedupReturned
    /\ \E p, q \in Entities(parse.data) :
          /\ p # q
          /\ IdentityLine(parse.data[p])
          /\ CanonicalKey(LineRhs(parse.data[p]), max_decimals)
                = CanonicalKey(LineRhs(parse.data[q]), max_decimals)
    /\ Len(out_lines) < Cardinality(Entities(parse.data))

\* The entities of out_lines that the entities of S refer to, and S.
Referred(S) ==
    S \cup {j \in DOMAIN out_lines :
               \E i \in S : \E t \in DOMAIN Tokens(out_lines[i]) :
                  Tokens(out_lines[i])[t] = LineId(out_lines[j])}

RECURSIVE ClosureOf(_)
ClosureOf(S) == IF Referred(S) = S THEN S ELSE ClosureOf(Referred(S))

Roots == {i \in DOMAIN out_lines : RootLine(out_lines[i])}

\* remove_orphans kept the entities of S, in their order and with their content.
KeptAre(S) ==
    /\ {i \in DOMAIN out_lines : kept[i] > 0} = S
    /\ Len(data_lines) = Cardinality(S)
    /\ \A i \in S :
          /\ kept[i] \in DOMAIN data_lines
          /\ MaskRefs(LineRhs(data_lines[kept[i]])) = MaskRefs(LineRhs(out_lines[i]))
    /\ \A i, j \in S : i < j => kept[i] < kept[j]

\* C4: when remove_orphans' input has an entity of a root type, the entities it
\* keeps are the roots and what they reach through reference tokens, in their
\* order; when it has none, its output is its input.
C4_Reachability ==
    SweepRan => IF Roots # {} THEN KeptAre(ClosureOf(Roots)) ELSE data_lines = out_lines

\* C4 witness: remove_orphans dropped an entity and kept one that no root refers to
\* but that a kept entity refers to.
C4_Witness ==
    /\ SweepRan
    /\ \E i \in DOMAIN out_lines : kept[i] = 0
    /\ \E i \in DOMAIN out_lines : kept[i] > 0 /\ i \notin Referred(Roots)

C6_Contiguous ==
    /\ PassRan => Contiguous(out_lines)
    /\ SweepRan => Contiguous(data_lines)

\* C6 witness: an input whose ids are not 1..n, of which remove_orphans dropped an
\* entity and kept two.
C6_Witness ==
    /\ SweepRan
    /\ ~Contiguous(parse.data)
    /\ Len(data_lines) >= 2
    /\ \E i \in DOMAIN out_lines : kept[i] = 0

\* C7: the content of the k-th line deduplicate returns is the trimmed text after
\* '=' of the first input line of its merge class, but for the digits of its
\* reference tokens; and the first lines of the classes keep their order.
C7_RawContent ==
    DedupReturned =>
       /\ \A k \in DOMAIN out_lines :
             /\ \E p \in DOMAIN origin : origin[p] = k
             /\ MaskRefs(From(out_lines[k], Unwrap(Find(out_lines[k], "=")) + 1))
                   = MaskRefs(LineRhs(parse.data[FirstTo(origin, k)]))
       /\ \A k, l \in DOMAIN out_lines :
             k < l => FirstTo(origin, k) < FirstTo(origin, l)

\* C7 witness: under a bound, deduplicate merged entities and returned a line whose
\* content is not its canonical key.
C7_Witness ==
    /\ DedupReturned
    /\ max_decimals # None
    /\ Len(out_lines) < Cardinality(Entities(parse.data))
    /\ \E k \in DOMAIN out_lines :
          /\ CanonicalKey(LineRhs(out_lines[k]), max_decimals) # LineRhs(out_lines[k])
          /\ \E p \in DOMAIN origin : p # FirstTo(origin, k) /\ origin[p] = k

Smaller(a, b) == IF a <= b THEN a ELSE b

\* C8: the bound reduce hands to deduplicate is options.max_decimals when
\* use_step_precision is off or no precision is derived; else the smaller of the two
\* when max_decimals is set, and the derived precision when it is not.  A data line
\* with UNCERTAINTY_MEASURE_WITH_UNIT(LENGTH_MEASURE(0.001)) and no bound gives 4.
BoundFor(derived) ==
    /\ ~options.use_step_precision => max_decimals = options.max_decimals
    /\ (options.use_step_precision /\ derived = None) => max_decimals = options.max_decimals
    /\ (options.use_step_precision /\ derived # None) =>
          IF options.max_decimals = None
          THEN max_decimals = derived
          ELSE max_decimals = Some(Smaller(Unwrap(options.max_decimals), Unwrap(derived)))

C8_EffectiveBound ==
    /\ PrecisionRan => BoundFor(extract_uncertainty(parse.data))
    /\ pc = "start" =>
          EffectiveDecimals(
              [max_decimals |-> None, use_step_precision |-> TRUE],
              <<"#1=UNCERTAINTY_MEASURE_WITH_UNIT(LENGTH_MEASURE(0.001));">>) = Some(4)

\* C8 witness: a bound of 3 was given and a precision of 2 derived, and deduplicate
\* is handed 2.
C8_Witness ==
    /\ PrecisionRan
    /\ options = [max_decimals |-> Some(3), use_step_precision |-> TRUE]
    /\ extract_uncertainty(parse.data) = Some(2)
    /\ max_decimals = Some(2)

\* A data line that does not start with '#', digits and '='.
Malformed(line) ==
    ~(/\ At(line, 0) = "#"
      /\ Find(line, "=") # None
      /\ EatDigits(line, 1) > 1
      /\ Find(line, "=") = Some(EatDigits(line, 1)))

RECURSIVE WellFormed(_)
WellFormed(lines) ==
    IF lines = <<>> THEN <<>>
    ELSE IF Malformed(Head(lines)) THEN WellFormed(Tail(lines))
    ELSE <<Head(lines)>> \o WellFormed(Tail(lines))

\* C9: a malformed data line never makes reduce panic; deduplicate gives it no id
\* and returns what it returns for the list without the malformed lines.
C9_MalformedSkipped ==
    /\ result # "Panic"
    /\ DedupReturned =>
          /\ \A p \in DOMAIN parse.data : Malformed(parse.data[p]) => origin[p] = 0
          /\ out_lines = deduplicate(WellFormed(parse.data), max_decimals).out_lines

\* C10: reduce does not return Ok after a read of the input failed.
C10_ReadFailurePropagated ==
    (pc = "done" /\ read_failed) => result # "Ok"

\* C11: no output file exists while the input is opened, counted or read; the
\* output is created and written only after the last read, from values that no
\* later step changes; a failed open leaves no output; and what a run that returns
\* Ok has written is the reduction of the lines it read, so it is the same whether
\* or not creating the output truncated the file that was read.
C11_ReadBeforeWrite ==
    /\ [](output # None => pc \in {"write", "done"})
    /\ [][/\ (input' # input \/ pc' \in {"open", "read"}) => output' = None
          /\ output' # output =>
                 /\ pc \in {"create", "write"}
                 /\ input' = input /\ parse' = parse /\ data_lines' = data_lines
          /\ (pc \in {"start", "open"} /\ pc' = "done") => output' = None]_vars
    /\ []((pc = "done" /\ result = "Ok") => Unwrap(output) = reduce(input, options))

\* A run that read a file of four lines or more and wrote a shorter one.
C11_Witness ==
    /\ pc = "done" /\ result = "Ok" /\ ~read_failed
    /\ Len(input) >= 4
    /\ Len(Unwrap(output)) < Len(input)

\* The place of the first line of `lines` from `from` on that contains `needle`,
\* Len(lines) + 1 when there is none.
FirstWith(lines, needle, from) ==
    Least({i \in from..Len(lines) : Contains(lines[i], needle)} \cup {Len(lines) + 1})

\* The last header line of a file: the first line that contains DATA;, or the last
\* line.
HeaderEnd(lines) ==
    IF FirstWith(lines, "DATA;", 1) > Len(lines) THEN Len(lines)
    ELSE FirstWith(lines, "DATA;", 1)

\* The first footer line of a file.
FooterStart(lines) == FirstWith(lines, "ENDSEC;", HeaderEnd(lines) + 1)

\* The header lines of a file without their trailing whitespace, and its footer
\* lines.
FramedHeader(lines) == [i \in 1..HeaderEnd(lines) |-> TrimEnd(lines[i])]
FramedFooter(lines) == SubSeq(lines, FooterStart(lines), Len(lines))

IsPrefix(a, b) == Len(a) <= Len(b) /\ a = SubSeq(b, 1, Len(a))

\* C12: a run that returns Ok has written the header lines of the file it read,
\* each without its trailing whitespace, then the lines remove_orphans returned,
\* then the footer lines as read, one line each; a failed write leaves a prefix of
\* that; a file without a DATA; line comes out as its header lines alone; and no
\* step after the parse changes the header or the footer.
C12_Framing ==
    /\ output # None =>
          /\ IsPrefix(Unwrap(output),
                      FramedHeader(input) \o data_lines \o FramedFooter(input))
          /\ result = "Ok" =>
                Len(Unwrap(output)) =
                    HeaderEnd(input) + Len(data_lines) + Len(input) + 1 - FooterStart(input)
    /\ (pc = "done" /\ result = "Ok" /\ FirstWith(input, "DATA;", 1) > Len(input)) =>
          Unwrap(output) = [i \in DOMAIN input |-> TrimEnd(input[i])]
    /\ pc \notin {"start", "open", "read"} =>
          /\ parse.header = FramedHeader(input)
          /\ parse.footer = FramedFooter(input)

\* A run that wrote a header line it trimmed, data lines fewer than it read, and
\* a footer.
C12_Witness ==
    /\ pc = "done" /\ result = "Ok"
    /\ \E i \in 1..HeaderEnd(input) : TrimEnd(input[i]) # input[i]
    /\ data_lines # <<>> /\ Len(data_lines) < Len(parse.data)
    /\ FramedFooter(input) # <<>>

\* C13: whatever the order in which the hash map hands out the roots and the hash
\* sets their references, the walk ends with the reachable set, and remove_orphans
\* with the lines, that one fixed order gives; the list deduplicate returns is the
\* value of a function of its input and the bound; and a run that returns Ok has
\* written the value of a function of the lines read and the options.
C13_Deterministic ==
    /\ (pc = "walk" /\ stack = <<>>) => reachable = Reached(maps)
    /\ SweepRan => data_lines = remove_orphans(out_lines)
    /\ DedupReturned => out_lines = deduplicate(parse.data, max_decimals).out_lines
    /\ (pc = "done" /\ result = "Ok" /\ ~read_failed) =>
          Unwrap(output) = reduce(input, options)

\* remove_orphans has returned after a walk from two roots, seeded in one of two
\* orders, that reached a third entity and left one behind.
C13_Witness ==
    /\ SweepRan
    /\ Cardinality(RootIds(maps.id_to_rhs)) = 2
    /\ Cardinality(reachable) >= 3
    /\ Len(data_lines) < Len(out_lines)

\* The literal of a text, and the value it denotes: an integer m and a power of
\* ten e, m not a multiple of ten, for m * 10^e; <<0, 0>> for zero.
LiteralOf(text) == CHOOSE l \in Literals : l.text = text

RECURSIVE DigitsNumber(_)
DigitsNumber(d) ==
    IF d = "" THEN 0
    ELSE 10 * DigitsNumber(SubSeq(d, 1, Len(d) - 1))
         + (CHOOSE k \in 0..9 : SubSeq("0123456789", k + 1, k + 1) = SubSeq(d, Len(d), Len(d)))

RECURSIVE Lowest(_, _)
Lowest(m, e) ==
    IF m = 0 THEN <<0, 0>>
    ELSE IF m % 10 = 0 THEN Lowest(m \div 10, e + 1)
    ELSE <<m, e>>

Signed(neg, v) == <<IF neg THEN 0 - v[1] ELSE v[1], v[2]>>

ValueOf(l) == Signed(l.neg, Lowest(DigitsNumber(l.int \o l.frac), l.exp - Len(l.frac)))

\* The places of the character c in r.
PlacesOf(r, c) == {i \in 1..Len(r) : SubSeq(r, i, i) = c}

OnlyDigits(d) == \A i \in 1..Len(d) : SubSeq(d, i, i) \in Digits

\* The integer and the fractional part of a text with one point: what is between
\* an optional minus and the point, and what follows the point.
IntegerPart(r) ==
    SubSeq(r, IF SubSeq(r, 1, 1) = "-" THEN 2 ELSE 1, Least(PlacesOf(r, ".")) - 1)

FractionPart(r) == SubSeq(r, Least(PlacesOf(r, ".")) + 1, Len(r))

\* The shape of a canonical form.
CanonicalShape(r) ==
    /\ Cardinality(PlacesOf(r, ".")) = 1
    /\ PlacesOf(r, "e") \cup PlacesOf(r, "E") = {}
    /\ IntegerPart(r) # "" /\ OnlyDigits(IntegerPart(r))
    /\ (SubSeq(IntegerPart(r), 1, 1) = "0" => IntegerPart(r) = "0")
    /\ OnlyDigits(FractionPart(r))
    /\ (FractionPart(r) # "" =>
           SubSeq(FractionPart(r), Len(FractionPart(r)), Len(FractionPart(r))) # "0")

\* r is the normal form of exactly the literals of value v.
NormalFormOf(r, v) ==
    \A b \in Literals : (normalize_number(b.text) = r) <=> (ValueOf(b) = v)

NormalizeExamples ==
    [t \in {"1.0", "1.0E-3", ".5", "-0.0", "1.200", "2.5e+2"} |->
        CASE t = "1.0" -> "1."
          [] t = "1.0E-3" -> "0.001"
          [] t = ".5" -> "0.5"
          [] t = "-0.0" -> "0."
          [] t = "1.200" -> "1.2"
          [] t = "2.5e+2" -> "250."]

\* C14: what normalize_number returns for a literal is what it returns for exactly
\* the literals of the same value; it has one point, no exponent, an integer part
\* of digits with no leading zero but "0" itself, a fractional part of digits with
\* no trailing zero, and is "0." for a zero; normalize_number returns it unchanged;
\* and the six examples come out as stated.
C14_Canonical ==
    /\ pc \in {"normalized", "renormalized"} =>
          /\ CanonicalShape(out_lines[1])
          /\ (ValueOf(LiteralOf(input[1])) = <<0, 0>> => out_lines[1] = "0.")
          /\ (input[1] \in DOMAIN NormalizeExamples =>
                 out_lines[1] = NormalizeExamples[input[1]])
    /\ pc = "normalized" => NormalFormOf(out_lines[1], ValueOf(LiteralOf(input[1])))
    /\ pc = "renormalized" => data_lines[1] = out_lines[1]

\* A negative literal with a leading zero, a trailing zero and an exponent has been
\* normalized twice.
C14_Witness ==
    /\ pc = "renormalized"
    /\ input = <<"-05.50E-1">>
    /\ out_lines = <<"-0.55">>

\* The digits d cut to its first n and then to its last digit that is not 0.
CutTo(d, n) == SubSeq(d, 1, IF Len(d) > n THEN n ELSE Len(d))

Greatest(S) == CHOOSE x \in S : \A y \in S : y <= x

Unpadded(d) == SubSeq(d, 1, Greatest({0} \cup {i \in 1..Len(d) : SubSeq(d, i, i) # "0"}))

\* The normal form r with its fractional part cut to n digits.
CutNormalForm(r, int, frac) ==
    IF int = "0" /\ frac = "" THEN "0."
    ELSE (IF SubSeq(r, 1, 1) = "-" THEN "-" ELSE "") \o int \o "." \o frac

Truncated(r, n) == CutNormalForm(r, IntegerPart(r), Unpadded(CutTo(FractionPart(r), n)))

RoundExamples ==
    /\ (input = <<"3.14159">> /\ max_decimals = Some(3)) => out_lines = <<"3.141">>
    /\ (input = <<"3.14159">> /\ max_decimals = Some(0)) => out_lines = <<"3.">>
    /\ (input = <<"3.14">> /\ max_decimals = Some(5)) => out_lines = <<"3.14">>

\* What round_number returned is the normal form r of its literal cut to n digits.
RoundedFrom(rounded, r, n) ==
    /\ rounded = Truncated(r, n)
    /\ CanonicalShape(rounded)
    /\ Len(FractionPart(rounded)) <= n
    /\ IsPrefix(FractionPart(rounded), FractionPart(r))
    /\ (rounded # "0." => IntegerPart(rounded) = IntegerPart(r)
                           /\ SubSeq(rounded, 1, 1) = SubSeq(r, 1, 1))
    /\ (Len(FractionPart(r)) <= n => rounded = r)

\* C15: round_number returns the normal form of its literal with the fractional
\* part cut to its first n digits and then to its last digit that is not 0, the
\* digits it keeps being those of the normal form, and "0." with no sign when
\* nothing but zeros is left; it returns the normal form itself when that has at
\* most n fractional digits; and the three examples come out as stated.
C15_Truncates ==
    pc = "rounded" =>
        /\ RoundedFrom(out_lines[1], normalize_number(input[1]), Unwrap(max_decimals))
        /\ RoundExamples

\* A negative literal below the bound has been rounded to an unsigned zero.
C15_Witness ==
    /\ pc = "rounded"
    /\ input = <<"-0.05">>
    /\ max_decimals = Some(1)
    /\ out_lines = <<"0.">>

\* The physical data lines of a file: those between its header and its footer.
Middle(lines) == SubSeq(lines, HeaderEnd(lines) + 1, FooterStart(lines) - 1)

\* The texts of a list one after the other, and a text without its spaces.
RECURSIVE Flat(_)
Flat(seq) == IF seq = <<>> THEN "" ELSE Head(seq) \o Flat(Tail(seq))

RECURSIVE NoSpaces(_)
NoSpaces(s) ==
    IF s = "" THEN ""
    ELSE (IF SubSeq(s, 1, 1) = " " THEN "" ELSE SubSeq(s, 1, 1))
         \o NoSpaces(SubSeq(s, 2, Len(s)))

\* C16: the parser's section state only moves forward; the header group is the
\* lines up to and with the first that contains DATA; (each without its trailing
\* whitespace), the footer group the first later line that contains ENDSEC; and
\* all lines after it, the data group is made of the lines in between, in order
\* and with nothing but spaces added or removed.
C16_Sections ==
    /\ [](parse.past_data => parse.past_header)
    /\ [][/\ parse.past_header => parse'.past_header
          /\ parse.past_data => parse'.past_data]_vars
    /\ [](/\ parse.header = FramedHeader(input)
          /\ parse.footer = FramedFooter(input)
          /\ NoSpaces(Flat(parse.data)) = NoSpaces(Flat(Middle(input)))
          /\ (parse.data = <<>> <=> Middle(input) = <<>>)
          /\ parse.past_header = (FirstWith(input, "DATA;", 1) <= Len(input))
          /\ parse.past_data = (FooterStart(input) <= Len(input)))

\* The parser has returned for a file with an ENDSEC; line before its DATA; line
\* and a DATA; line after its second ENDSEC; line.
C16_Witness ==
    /\ pc = "precision"
    /\ input = <<"ENDSEC;", "DATA;", "#1=A(", "ENDSEC;", "DATA;">>
    /\ parse.header = <<"ENDSEC;", "DATA;">>
    /\ parse.data = <<"#1=A(">>
    /\ parse.footer = <<"ENDSEC;", "DATA;">>

\* A physical line ends its statement.
Terminated(line) ==
    Trim(line) # "" /\ SubSeq(Trim(line), Len(Trim(line)), Len(Trim(line))) = ";"

\* The physical lines that start a statement, and the line that ends the
\* statement started at i: the next that is terminated, or the last.
StatementStarts(m) == {i \in 1..Len(m) : i = 1 \/ Terminated(m[i - 1])}

StatementEnd(m, i) == Least({j \in i..Len(m) : Terminated(m[j])} \cup {Len(m)})

StartsWithLetter(line) ==
    Trim(line) # "" /\ SubSeq(Trim(line), 1, 1) \in UpperLetters \cup LowerLetters

\* The lines i..j of m trimmed and put together, a space before each but the
\* first that starts with a letter.
RECURSIVE JoinedLines(_, _, _, _)
JoinedLines(m, i, j, first) ==
    (IF ~first /\ StartsWithLetter(m[i]) THEN " " ELSE "") \o Trim(m[i])
        \o (IF i >= j THEN "" ELSE JoinedLines(m, i + 1, j, FALSE))

Nth(S, k) == CHOOSE i \in S : Cardinality({x \in S : x <= i}) = k

Statements(m) ==
    [k \in 1..Cardinality(StatementStarts(m)) |->
        JoinedLines(m, Nth(StatementStarts(m), k),
                    StatementEnd(m, Nth(StatementStarts(m), k)), TRUE)]

\* C17: the data elements are the statements of the physical data lines: each the
\* trimmed lines from the one after a terminated line up to the next terminated
\* line, put together with one space before a continuation that starts with a
\* letter and nothing before any other; there is one element for each terminated
\* line and one more when the last line is not terminated.
C17_Continuation ==
    /\ parse.data = Statements(Middle(input))
    /\ Len(parse.data) =
          Cardinality({i \in DOMAIN Middle(input) : Terminated(Middle(input)[i])})
              + (IF Middle(input) # <<>> /\ ~Terminated(Middle(input)[Len(Middle(input))])
                 THEN 1 ELSE 0)

\* The parser has returned for a statement of three lines, the second starting
\* with a letter and the third with a comma, followed by an unterminated empty line.
C17_Witness ==
    /\ pc = "precision"
    /\ input = <<"DATA;", "#1=A(", " B,", ",#2); ", "">>
    /\ parse.data = <<"#1=A( B,,#2);", "">>

\* C18: deduplicate's loop ends; a pass never lengthens the list, the loop goes on
\* after a pass exactly when the pass shortened it, and the passes are at most one
\* more than the lines deduplicate was given.
C18_DedupTerminates ==
    /\ (pc = "dedup") ~> (pc # "dedup")
    /\ [](passes <= Len(parse.data) + 1)
    /\ [](PassRan => /\ Len(out_lines) <= Len(in_lines)
                     /\ (pc = "dedup") <=> (Len(out_lines) < Len(in_lines)))
    /\ [][(pc = "dedup" /\ pc' \in {"dedup", "orphans"}) =>
             /\ passes' = passes + 1
             /\ in_lines' = out_lines
             /\ Len(out_lines') <= Len(out_lines)]_vars

\* The loop has ended after three passes, two of which shortened the list.
C18_Witness ==
    /\ pc = "orphans"
    /\ passes = 3
    /\ Len(out_lines) = Len(in_lines)
    /\ Len(out_lines) + 2 <= Len(parse.data)

\* The ids of a work-list, and a work-list that holds no id twice.
Held(work) == {work[i] : i \in DOMAIN work}

NoRepeat(work) == Cardinality(Held(work)) = Len(work)

\* What a step of remove_orphans pushed: the work-list after it from the place of
\* the id it popped on.
Pushed(before, after) == SubSeq(after, Len(before), Len(after))

\* C19: the walk of remove_orphans ends; the work-list never holds an id twice
\* nor an id that is not in the reachable set; the seeding pushes the ids it puts
\* in the reachable set, a visit pops one id and pushes the ids it adds to the
\* reachable set at that step and no other, so no id is pushed twice; and the
\* reachable set only grows.
C19_WalkTerminates ==
    /\ (pc = "orphans") ~> (pc = "create")
    /\ [](NoRepeat(stack) /\ Held(stack) \subseteq reachable)
    /\ [][pc = "orphans" => (Held(stack') = reachable' /\ NoRepeat(stack'))]_vars
    /\ [][pc = "walk" =>
             /\ reachable \subseteq reachable'
             /\ pc' = "walk" =>
                    /\ SubSeq(stack', 1, Len(stack) - 1) = SubSeq(stack, 1, Len(stack) - 1)
                    /\ Held(Pushed(stack, stack')) = reachable' \ reachable
                    /\ NoRepeat(Pushed(stack, stack'))]_vars

\* remove_orphans has returned for a list of four entities, three of them reached
\* through references that go round and the fourth an orphan that names itself.
C19_Witness ==
    /\ pc = "create"
    /\ Len(out_lines) = 4
    /\ reachable = {1, 2, 3}
    /\ \E i \in DOMAIN out_lines : out_lines[i] = "#4=C(#4);"
    /\ Len(data_lines) = 3

\* The list of the unit test removes_duplicates.
AxisPlacements ==
    <<"#1=CARTESIAN_POINT('',0.,0.,0.)",
      "#2=CARTESIAN_POINT('',0.,0.,0.)",
      "#3=DIRECTION('',1.,0.,0.)",
      "#4=AXIS2_PLACEMENT_3D('',#1,#3,#3)",
      "#5=AXIS2_PLACEMENT_3D('',#2,#3,#3)">>

\* The last line of the list the pass read that carries the id of its i-th line.
LastWithId(i) ==
    Greatest({j \in Entities(in_lines) : LineId(in_lines[j]) = LineId(in_lines[i])})

\* The pass's table is the table of all its decisions: it holds the ids of the
\* entities the pass read, each sent to the id its last line was given.
TableComplete ==
    /\ DOMAIN lookup = IdsOf(in_lines)
    /\ \A i \in Entities(in_lines) : lookup[LineId(in_lines[i])] = assigned[LastWithId(i)]

\* The k-th surviving line is the content of the first line given k, as the pass
\* read it, with that table applied.
ContentRemapped(k) ==
    out_lines[k]
        = EntityLine(k, remap_references(LineRhs(in_lines[FirstTo(assigned, k)]), lookup))

\* Two entities of different keys that name different entities and whose keys
\* differ only in reference tokens, the tokens at each place naming one entity or
\* entities the pass sent to one id.
DifferInMerged(i, j) ==
    /\ Keys[i] # Keys[j]
    /\ Tokens(in_lines[i]) # Tokens(in_lines[j])
    /\ MaskRefs(Keys[i]) = MaskRefs(Keys[j])
    /\ Len(Tokens(in_lines[i])) = Len(Tokens(in_lines[j]))
    /\ \A t \in DOMAIN Tokens(in_lines[i]) :
          \/ Tokens(in_lines[i])[t] = Tokens(in_lines[j])[t]
          \/ /\ {Tokens(in_lines[i])[t], Tokens(in_lines[j])[t]} \subseteq DOMAIN lookup
             /\ lookup[Tokens(in_lines[i])[t]] = lookup[Tokens(in_lines[j])[t]]

\* C20: a pass decides on keys computed from the contents as the pass read them,
\* two non-identity entities being given one id exactly when those keys are equal,
\* and applies its complete table to the surviving contents afterwards.  Two
\* entities that differ only in references to entities the pass merged keep two ids
\* in that pass, another pass follows, and it gives them one id.  For the list of
\* removes_duplicates the passes leave 4 and then 3 entities, and 3 are returned.
C20_PassOrder ==
    /\ [](PassRan =>
             /\ TableComplete
             /\ \A k \in DOMAIN out_lines : ContentRemapped(k)
             /\ \A i, j \in NonIdentity :
                   /\ (assigned[i] = assigned[j]) <=> (Keys[i] = Keys[j])
                   /\ DifferInMerged(i, j) => (assigned[i] # assigned[j] /\ pc = "dedup"))
    /\ [][(PassRan /\ pc = "dedup" /\ pc' \in {"dedup", "orphans"}) =>
             \A i, j \in NonIdentity :
                DifferInMerged(i, j) => assigned'[assigned[i]] = assigned'[assigned[j]]]_vars
    /\ [](parse.data = AxisPlacements =>
             /\ (PassRan /\ passes = 1) => Len(out_lines) = 4
             /\ (PassRan /\ passes >= 2) => Len(out_lines) = 3
             /\ passes <= 3
             /\ DedupReturned => (passes = 3 /\ Len(out_lines) = 3))

\* The second pass on the list of removes_duplicates has merged the two placements,
\* which the first pass kept apart while it merged the points they name.
C20_Witness ==
    /\ parse.data = AxisPlacements
    /\ pc = "dedup"
    /\ passes = 2
    /\ Len(in_lines) = 4
    /\ out_lines = <<"#1=CARTESIAN_POINT('',0.,0.,0.)",
                     "#2=DIRECTION('',1.,0.,0.)",
                     "#3=AXIS2_PLACEMENT_3D('',#1,#2,#2)">>

\* A content that starts with a type name, `(` and a quoted string, the string
\* taken to end at the next apostrophe; its type name and what follows the string.
Labelled(rhs) ==
    /\ Find(rhs, "(") # None
    /\ Unwrap(Find(rhs, "(")) > 0
    /\ At(rhs, Unwrap(Find(rhs, "(")) + 1) = "'"
    /\ FindFrom(rhs, "'", Unwrap(Find(rhs, "(")) + 2) # None

TypeName(rhs) == Slice(rhs, 0, Unwrap(Find(rhs, "(")))

AfterLabel(rhs) == From(rhs, Unwrap(FindFrom(rhs, "'", Unwrap(Find(rhs, "(")) + 2)) + 1)

\* The content with the text of that string taken out.
Unlabelled(rhs) == TypeName(rhs) \o "(''" \o AfterLabel(rhs)

\* A type name of capital letters and underscores.
UpperName(t) == \A p \in 0..(Len(t) - 1) : At(t, p) \in UpperLetters \cup {"_"}

\* The key of the i-th line the pass read is the content with its numbers
\* normalized, and with the text of its label taken out when `named` holds of it.
KeyStripsLabel(i, rhs, named) ==
    Keys[i] = normalize_numbers_in_line(IF named THEN Unlabelled(rhs) ELSE rhs, max_decimals)

\* Two lines the pass read whose contents differ in their labels at most have one
\* key and are given one id.
LabelImmaterial(i, j, a, b) ==
    Unlabelled(a) = Unlabelled(b) => (Keys[i] = Keys[j] /\ assigned[i] = assigned[j])

\* C21 as stated: for every non-identity type name, two entities equal but for
\* their labels have equal keys and are merged, the key being the content with
\* normalized numbers and an emptied label, and a content without a label at its
\* start being compared as it is.
C21_LabelImmaterial ==
    PassRan =>
       /\ \A i \in NonIdentity :
             KeyStripsLabel(i, LineRhs(in_lines[i]), Labelled(LineRhs(in_lines[i])))
       /\ \A i, j \in NonIdentity :
             (Labelled(LineRhs(in_lines[i])) /\ Labelled(LineRhs(in_lines[j])))
                => LabelImmaterial(i, j, LineRhs(in_lines[i]), LineRhs(in_lines[j]))

\* A content whose label the code takes out: its type name has capital letters and
\* underscores only.
UpperLabelled(rhs) == Labelled(rhs) /\ UpperName(TypeName(rhs))

\* C21, amended: the same for the type names made of capital letters and underscores
\* only; a content whose type name has any other character is compared with its
\* label.
C21_UpperLabelImmaterial ==
    PassRan =>
       /\ \A i \in NonIdentity :
             KeyStripsLabel(i, LineRhs(in_lines[i]), UpperLabelled(LineRhs(in_lines[i])))
       /\ \A i, j \in NonIdentity :
             (UpperLabelled(LineRhs(in_lines[i])) /\ UpperLabelled(LineRhs(in_lines[j])))
                => LabelImmaterial(i, j, LineRhs(in_lines[i]), LineRhs(in_lines[j]))

\* The pass merged two B_C entities of different labels and kept apart two D
\* entities whose quoted strings are not at their start.
C21_Witness ==
    /\ PassRan
    /\ passes = 1
    /\ in_lines = <<"#1=B_C('',0.50)", "#2=B_C('My Part',0.5)",
                    "#3=D(#1,'')", "#4=D(#1,'My Part')">>
    /\ assigned = <<1, 1, 2, 3>>

\* The offset after blanks, `(` and blanks at p, if a `(` is there.
Opened(line, p) ==
    IF p < Len(line) /\ At(line, p) = "(" THEN Some(skip_whitespace(line, p + 1)) ELSE None

\* The keyword at p in any case of letters, then blanks, `(` and blanks: the
\* offset after them.
KeywordOpened(line, p, word) ==
    IF p = None \/ match_keyword_ci(line, Unwrap(p), word) = None THEN None
    ELSE Opened(line, skip_whitespace(line, Unwrap(match_keyword_ci(line, Unwrap(p), word))))

\* The text from `from` up to the next `)`, trimmed.
UpToClose(line, from) ==
    IF from = None \/ FindFrom(line, ")", Unwrap(from)) = None THEN None
    ELSE Some(Trim(Slice(line, Unwrap(from), Unwrap(FindFrom(line, ")", Unwrap(from))))))

\* The value text of an occurrence of
\* UNCERTAINTY_MEASURE_WITH_UNIT ( LENGTH_MEASURE ( value ) ) that starts at s.
MeasureText(line, s) ==
    UpToClose(line, KeywordOpened(line,
                                  KeywordOpened(line, Some(s), "UNCERTAINTY_MEASURE_WITH_UNIT"),
                                  "LENGTH_MEASURE"))

\* A value text that parses as a number greater than 0: some digit of its decimal
\* form is not 0 and it has no minus.
Qualifies(text) ==
    /\ text # None
    /\ ParseF64(Unwrap(text)) # None
    /\ SubSeq(Unwrap(ParseF64(Unwrap(text))), 1, 1) # "-"
    /\ \E p \in 1..Len(Unwrap(ParseF64(Unwrap(text)))) :
          SubSeq(Unwrap(ParseF64(Unwrap(text))), p, p) \in Digits \ {"0"}

\* The places <<line, offset>> of the occurrences that qualify, and the first of
\* them in the order of the lines and from left to right in a line.
Qualifying(lines) ==
    {q \in UNION {{<<i, s>> : s \in 0..(Len(lines[i]) - 1)} : i \in DOMAIN lines} :
        Qualifies(MeasureText(lines[q[1]], q[2]))}

FirstPlace(Q) ==
    CHOOSE q \in Q : \A r \in Q : q[1] < r[1] \/ (q[1] = r[1] /\ q[2] <= r[2])

\* ceil(-log10(v)) of a positive decimal "int.frac" without leading zeros: for
\* v >= 1 with d digits before the point it is 1 - d, for v < 1 it is the place of
\* the first digit after the point that is not 0.
CeilNegLog10(val, dot) ==
    IF SubSeq(val, 1, dot - 1) # "0" THEN 1 - (dot - 1)
    ELSE Least({p \in 1..(Len(val) - dot) : SubSeq(val, dot + p, dot + p) # "0"})

PointOf(val) == Least({p \in 1..Len(val) : SubSeq(val, p, p) = "."})

\* ceil(-log10(v)) + 1 of the first qualifying occurrence of a list.
PrecisionAt(lines, q) ==
    CeilNegLog10(Unwrap(ParseF64(Unwrap(MeasureText(lines[q[1]], q[2])))),
                 PointOf(Unwrap(ParseF64(Unwrap(MeasureText(lines[q[1]], q[2])))))) + 1

\* reduce has derived the precision alone: use_step_precision is set and no bound
\* was given, so the bound it hands on is what extract_uncertainty returned.
Extracted ==
    /\ pc = "dedup"
    /\ passes = 0
    /\ options.use_step_precision
    /\ options.max_decimals = None

\* C22: extract_uncertainty returns Some(ceil(-log10(v)) + 1) for the value v of
\* the first occurrence, in the order of the lines and from left to right in a
\* line, whose value parses as a number greater than 0, whatever follows it, and
\* None when no occurrence qualifies: 4 for 0.001, 1 for 1, 0 for 10.
C22_FirstUncertainty ==
    Extracted =>
       max_decimals = IF Qualifying(parse.data) = {} THEN None
                      ELSE Some(PrecisionAt(parse.data, FirstPlace(Qualifying(parse.data))))

\* The reference tokens of a text: a `#` and the digits after it, as many as there
\* are.  The places where they start, where the one at p ends, the t-th of them,
\* and the text between the (t-1)-th and the t-th (after the last for t one more
\* than their number).
TokenStarts(s) ==
    {p \in 1..(Len(s) - 1) : SubSeq(s, p, p) = "#" /\ SubSeq(s, p + 1, p + 1) \in Digits}

TokenEnd(s, p) ==
    Least({q \in (p + 1)..Len(s) : q = Len(s) \/ SubSeq(s, q + 1, q + 1) \notin Digits})

TokenText(s, t) == SubSeq(s, Nth(TokenStarts(s), t), TokenEnd(s, Nth(TokenStarts(s), t)))

GapText(s, t) ==
    SubSeq(s,
           IF t = 1 THEN 1 ELSE TokenEnd(s, Nth(TokenStarts(s), t - 1)) + 1,
           IF t > Cardinality(TokenStarts(s)) THEN Len(s) ELSE Nth(TokenStarts(s), t) - 1)

\* What a token becomes under a table: `#` and the id its value is sent to when
\* the value is a key, the token itself when it is not.  A value of more than nine
\* digits is past the keys of every table of the model.
TokenUnder(token, table) ==
    IF Len(token) <= 10 /\ DigitsNumber(SubSeq(token, 2, Len(token))) \in DOMAIN table
    THEN "#" \o to_string(table[DigitsNumber(SubSeq(token, 2, Len(token)))])
    ELSE token

\* `to` is `from` with every token replaced by what it becomes under the table,
\* each once, and nothing else changed.
Substituted(from, to, table) ==
    /\ Cardinality(TokenStarts(to)) = Cardinality(TokenStarts(from))
    /\ \A t \in 1..Cardinality(TokenStarts(from)) :
          TokenText(to, t) = TokenUnder(TokenText(from, t), table)
    /\ \A t \in 1..(Cardinality(TokenStarts(from)) + 1) : GapText(to, t) = GapText(from, t)

\* C23: remap_references replaces every reference token whose value is a key of
\* the table by `#` and the id the table gives, each once and all from the text as
\* it was given, leaves every other token and every other character as it is, and
\* keeps the number and the order of the tokens; {1->2, 2->3} makes "#1,#2" into
\* "#2,#3" and {1->10, 3->30} makes "FOO(#1,#2,#3)" into "FOO(#10,#2,#30)".
C23_Simultaneous ==
    pc = "remapped" =>
       /\ Substituted(input[1], out_lines[1], lookup)
       /\ (input[1] = "#1,#2" /\ lookup = (1 :> 2) @@ (2 :> 3)) => out_lines[1] = "#2,#3"
       /\ (input[1] = "FOO(#1,#2,#3)" /\ lookup = (1 :> 10) @@ (3 :> 30))
              => out_lines[1] = "FOO(#10,#2,#30)"

\* The table sends 1 to 2 and 2 to 3, and the text named both.
C23_Witness ==
    /\ pc = "remapped"
    /\ input = <<"#1,#2">>
    /\ lookup = (1 :> 2) @@ (2 :> 3)
    /\ out_lines = <<"#2,#3">>

\* A data line of the form `#N`, optional blanks, `=`, content, N being decimal
\* digits; and its N.
Numbered(line) ==
    /\ SubSeq(line, 1, 1) = "#"
    /\ \E e \in 3..Len(line) :
          /\ SubSeq(line, e, e) = "="
          /\ \E d \in 2..(e - 1) :
                /\ \A p \in 2..d : SubSeq(line, p, p) \in Digits
                /\ \A p \in (d + 1)..(e - 1) : SubSeq(line, p, p) = " "

NumberOf(line) ==
    DigitsNumber(SubSeq(line, 2,
                        Greatest({d \in 2..Len(line) :
                                     \A p \in 2..d : SubSeq(line, p, p) \in Digits})))

\* The id of an entity line: its N when it has that form, and what deduplicate
\* reads when it has not.
FileId(line) == IF Numbered(line) THEN NumberOf(line) ELSE LineId(line)

\* No two entities of the list carry one id.
UniqueIds(lines) ==
    \A i, j \in Entities(lines) : FileId(lines[i]) = FileId(lines[j]) => i = j

\* The ids a list holds or names.
IdsNamed(lines) ==
    {FileId(lines[i]) : i \in Entities(lines)} \cup IdsOf(lines) \cup UNION {{Tokens(lines[i])[t] : t \in DOMAIN Tokens(lines[i])} :
                                i \in Entities(lines)}

\* A table followed by a pass's table, an id the pass's table does not hold being
\* left as it is.
Through(table, pass_table) ==
    [r \in DOMAIN table |->
        IF table[r] \in DOMAIN pass_table THEN pass_table[table[r]] ELSE table[r]]

\* The composition of the tables of all the passes deduplicate makes on a list,
\* after `table`.
RECURSIVE Composed(_, _, _)
ComposedWith(pass, in_len, md, table) ==
    IF in_len <= Len(pass.out_lines) THEN Through(table, pass.lookup)
    ELSE Composed(pass.out_lines, md, Through(table, pass.lookup))

Composed(lines, md, table) == ComposedWith(DedupPass(lines, md), Len(lines), md, table)

\* The tokens `new` are the tokens `old`, each that names an entity of the list
\* deduplicate was given replaced by the id `origin` gives that entity.
Images(old, new) ==
    /\ Len(new) = Len(old)
    /\ \A t \in DOMAIN old : \A j \in Entities(parse.data) :
          FileId(parse.data[j]) = old[t] => new[t] = origin[j]

\* Under the table m every entity deduplicate was given has its image in the
\* returned list, with the key of its own content renamed by m; and the entity a
\* token of the image names is the image of the entity the token named.
KeysKept(m) ==
    \A i \in Entities(parse.data) :
       /\ m[FileId(parse.data[i])] = origin[i]
       /\ origin[i] \in DOMAIN out_lines
       /\ LineId(out_lines[origin[i]]) = origin[i]
       /\ CanonicalKey(LineRhs(out_lines[origin[i]]), max_decimals)
             = CanonicalKey(remap_references(LineRhs(parse.data[i]), m), max_decimals)
       /\ LineType(out_lines[origin[i]]) = LineType(parse.data[i])
       /\ Images(Tokens(parse.data[i]), Tokens(out_lines[origin[i]]))

\* C24: deduplicate returned for a list of unique ids; with m the composition of
\* its passes' tables, the returned entity of id m(i) has the key of the content of
\* the entity i with every token #r written #m(r), and its type; and each of its
\* tokens names the image of the entity the token of i named.
C24_KeysKept ==
    (DedupReturned /\ UniqueIds(parse.data))
        => KeysKept(Composed(parse.data, max_decimals,
                             [r \in IdsNamed(parse.data) |-> r]))

\* The non-identity entities of a list, and the key of its i-th line.
Mergeable(lines) == {i \in Entities(lines) : ~IdentityLine(lines[i])}

KeyOf(lines, i) == CanonicalKey(LineRhs(lines[i]), max_decimals)

\* C25: when deduplicate returns for a list of unique ids whose reference tokens
\* all name entities of the list, no two non-identity entities of the returned
\* list have one key, and one more pass over the returned list gives that list
\* again; also when the loop ended after its first pass.
C25_FixedPoint ==
    (DedupReturned /\ UniqueIds(parse.data) /\ Closed(parse.data)) =>
       /\ \A i, j \in Mergeable(out_lines) :
             KeyOf(out_lines, i) = KeyOf(out_lines, j) => i = j
       /\ DedupPass(out_lines, max_decimals).out_lines = out_lines

\* The tokens of the k-th line the pass kept that named the id n in the line it
\* was read from now name new_id.
Renamed(k, from, n, new_id) ==
    \A t \in DOMAIN Tokens(from) :
       Tokens(from)[t] = n => Tokens(out_lines[k])[t] = new_id

\* C26: of a data line `#N`, optional blanks, `=`, content, deduplicate and
\* remove_orphans read the same id N; the pass's table holds N, sent to the id the
\* pass gave the line, and every token #N of the lines it kept is rewritten to
\* that id, also when blanks stand before the `=`.
C26_SameId ==
    PassRan =>
       \A i \in DOMAIN in_lines :
          Numbered(in_lines[i]) =>
             /\ LineId(in_lines[i]) = NumberOf(in_lines[i])
             /\ OrphanId(in_lines[i]) = Some(NumberOf(in_lines[i]))
             /\ NumberOf(in_lines[i]) \in DOMAIN lookup
             /\ UniqueIds(in_lines) =>
                   /\ lookup[NumberOf(in_lines[i])] = assigned[i]
                   /\ \A k \in DOMAIN out_lines :
                         Renamed(k, in_lines[FirstTo(assigned, k)], NumberOf(in_lines[i]),
                                 assigned[i])

\* Every reference token of the list names the id of an entity of the list, the
\* ids as the file writes them.
ClosedFile(lines) ==
    \A i \in Entities(lines) : \A t \in DOMAIN Tokens(lines[i]) :
       \E j \in Entities(lines) : FileId(lines[j]) = Tokens(lines[i])[t]

\* What remove_orphans makes of the list deduplicate returned: [lines, assigned].
SweepOf(lines) == Sweep(lines, Reached(BuildMaps(EmptyMaps, lines, 1)))

\* The list remove_orphans returned is closed, and each token of a line of it
\* names the image of the entity the token named in the list it was given.
SweepKeepsClosure(sw) ==
    /\ Closed(sw.lines)
    /\ \A k \in DOMAIN sw.lines :
          \E i \in DOMAIN out_lines :
             /\ sw.assigned[i] = k
             /\ TokensFollow(out_lines, sw.assigned, out_lines[i], sw.lines[k])

\* C27: for a list of unique ids whose tokens all name entities of the list, every
\* token of the list deduplicate returns names an entity of that list, the image
\* of the entity the token named; and the same holds of what remove_orphans makes
\* of that list.
C27_ClosurePreserved ==
    (DedupReturned /\ UniqueIds(parse.data) /\ ClosedFile(parse.data)) =>
       /\ Closed(out_lines)
       /\ \A i \in Entities(parse.data) :
             /\ origin[i] \in DOMAIN out_lines
             /\ Images(Tokens(parse.data[i]), Tokens(out_lines[origin[i]]))
       /\ SweepKeepsClosure(SweepOf(out_lines))

====
